---- MODULE Spec2Model ----
(***************************************************************************)
(* Model of the real-time audio-session core of plobin-tts-v1:             *)
(*   - ConnectionManager            (websocket/connection_manager.py)      *)
(*   - handle_chat_websocket        (websocket/chat_handler.py)            *)
(*   - AutoChatManager and its polling loop (auto_chat_manager.py)         *)
(*   - StreamingSTTService and /ws/streaming-stt (streaming_stt_service.py,*)
(*     web_voice_chat.py)                                                  *)
(*   - websocket_tts, stream_tts_audio, websocket_conversation             *)
(*     (korean_tts_api.py)                                                 *)
(*   - the confidence of a recognition result (streaming_stt_service.py,   *)
(*     websocket/stt_handler.py)                                           *)
(* Every "await websocket.send_text" is a suspension point: a send is      *)
(* begun in one step and completed in a later one, so that other tasks of  *)
(* the event loop may run in between.  Code between two awaits is atomic.  *)
(***************************************************************************)
EXTENDS Integers, Sequences, FiniteSets, TLC

\* ----------------------------------------------------------------- bounds
MaxTime == 5           \* the clock stops advancing here
MaxLateTime == 15      \* the same, for the polling loop on its own
MaxUtterances == 12    \* add_user_response calls on one session object
MaxRegistered == 3     \* length of active_connections, manager on its own
MaxCmSent == 2         \* frames written per websocket, manager on its own
MaxBroadcasts == 1     \* broadcast calls, manager on its own
MaxUpdates == 1        \* update_session_settings calls
MaxSyntheses == 1      \* MeloEngine.synthesize calls
MaxSessions == 2       \* AutoChatSession objects ever constructed
MaxInbound == 2        \* inbound frames handled, on all connections
MaxChunks == 3         \* audio chunks ingested, on all connections
MaxSttFrames == 1      \* other frames handled, on all streaming connections
MaxTtsChunks == 2      \* audio chunks the engine produces for one text
Capacity == 2          \* the queue capacity a deployment would configure

\* ------------------------------------------------------ program constants
TickPeriod == 5        \* asyncio.sleep(5) of auto_chat_loop
UserPause == 90        \* pause applied by handle_user_input
MinInterval == 10      \* max(10, ...) of update_session_settings
MaxInterval == 300     \* min(300, interval) of update_session_settings
MaxUserResponses == 10 \* add_user_response keeps the last 10
min_samples == 16000   \* int(min_audio_length * sample_rate)
chunk_size == 1024     \* chunk_size of MeloEngine.synthesize
AudioQueueMaxsize == 0 \* asyncio.Queue(): maxsize defaults to 0, no limit

Conns == {1, 2}                     \* websocket objects
Intervals == {5, 400}               \* "interval" values a client sends
Themes == {"casual"}
Texts == {"hi"}
Utterances == {"a", "b"}
Timestamps == {"", "T"}   \* "": the ping carries no timestamp

VARIABLES
    active_connections, \* ConnectionManager.active_connections (a list)
    open,               \* open[c]: the peer of websocket c has not closed
    h,                  \* h[c]: the receive-loop task of websocket c
    inbound,            \* number of frames received so far, on all connections
    sess,               \* every AutoChatSession object constructed, by id
    active_sessions,    \* AutoChatManager.active_sessions (keys, in dict order)
    is_running,         \* AutoChatManager.is_running
    background_tasks,   \* number of auto_chat_loop tasks created and alive
    spc,                \* position of the auto_chat_loop task
    snapshot,           \* sessions_to_process still to visit in this tick
    scur,               \* session the loop is sending to
    sframe,             \* frame the loop is sending
    wake,               \* time at which the loop's sleep ends
    now,                \* time.time()
    pause_until,        \* history: latest t + d of a pause_auto_chat call
    utterances,         \* history: texts given to add_user_response, by id
    result,             \* result[c]: how the last manager call on c ended
    bc,                 \* the broadcast call in progress, if any
    tts,                \* tts[c]: the handler task of a synthesis connection
    conf,               \* one recognition result and its reported confidence
    svc,                \* a StreamingSTTService and its process_stream worker
    upd,                \* the update_session_settings call, made or in progress
    raw,                \* the WhisperSTT recogniser and the /ws/stt handlers
    melo,               \* a MeloEngine, its queue and its synthesize call
    sent,               \* sent[c]: frames written to websocket c, in order
    audio_queue,        \* streaming_stt_service.audio_queue (one per process)
    cons,               \* cons[c]: the process_streaming_stt task of c
    chunk_origin,       \* history: chunk_origin[k] ingested chunk k
    temp_files,         \* chunk temporary files that exist
    dropped             \* history: chunks refused by put_nowait

chatVars == <<active_connections, open, h, inbound, sess, active_sessions,
              is_running, background_tasks, spc, snapshot, scur, sframe,
              wake, now, pause_until, utterances, sent>>

sttVars == <<audio_queue, cons, chunk_origin, temp_files, dropped>>

\* variables of the components exercised on their own
unitVars == <<result, bc, tts, conf, svc, upd, raw, melo>>
meloIdle == <<chatVars, sttVars, result, bc, tts, conf, svc, upd, raw>>
rawIdle == <<result, bc, tts, conf, svc, upd, melo, sttVars, active_connections, h,
             sess, active_sessions, is_running, background_tasks, spc,
             snapshot, scur, sframe, wake, now, pause_until, utterances>>

vars == <<chatVars, sttVars, unitVars>>

\* ---------------------------------------------------------------- helpers
Min(a, b) == IF a < b THEN a ELSE b
Max(a, b) == IF a > b THEN a ELSE b

Frame(type, sid, n, cls) == [type |-> type, sid |-> sid, n |-> n, cls |-> cls]
NoFrame == Frame("", 0, 0, "")

\* no call of send_personal_message on the websocket has ended yet
NoResult == [write |-> "", ret |-> ""]

RECURSIVE Remove(_, _)
\* list.remove(x) / del dict[x]: the sequence without its first x
Remove(seq, x) ==
    IF seq = <<>> THEN <<>>
    ELSE IF Head(seq) = x THEN Tail(seq)
    ELSE <<Head(seq)>> \o Remove(Tail(seq), x)

InSeq(seq, x) == \E i \in 1..Len(seq) : seq[i] = x

RECURSIVE SelectIds(_, _, _)
\* the session ids of `as` whose websocket is c, in dict order
SelectIds(as, ss, c) ==
    IF as = <<>> THEN <<>>
    ELSE (IF ss[Head(as)].websocket = c THEN <<Head(as)>> ELSE <<>>)
         \o SelectIds(Tail(as), ss, c)

\* AutoChatSession.__init__
NewSession(c, theme, interval, t) ==
    [websocket |-> c, theme |-> theme, interval |-> interval,
     is_active |-> FALSE, last_message_time |-> t, message_count |-> 0,
     user_responses |-> <<>>]

\* AutoChatSession.should_send_message
should_send_message(s, t) == (t - s.last_message_time) >= s.interval

\* AutoChatSession.update_last_message_time
update_last_message_time(s, t) ==
    [s EXCEPT !.last_message_time = t, !.message_count = s.message_count + 1]

\* mutant: eviction that keeps the first entries and drops the newest
add_user_response_keep_first(s, text) ==
    LET r == Append(s.user_responses, text) IN
    [s EXCEPT !.user_responses =
        IF Len(r) > MaxUserResponses
        THEN SubSeq(r, 1, MaxUserResponses) ELSE r]

\* AutoChatSession.add_user_response
add_user_response(s, text) ==
    LET r == Append(s.user_responses, text) IN
    [s EXCEPT !.user_responses =
        IF Len(r) > MaxUserResponses
        THEN SubSeq(r, Len(r) - MaxUserResponses + 1, Len(r)) ELSE r]

\* ConnectionManager.disconnect
disconnect(ac, c) == IF InSeq(ac, c) THEN Remove(ac, c) ELSE ac

\* mutant: send_auto_message that never picks the greeting
AutoFrameThemed(ss, s) ==
    Frame("auto_chat_message", s, ss[s].message_count + 1, "themed")

\* the frame send_auto_message builds for session id s
AutoFrame(ss, s) ==
    Frame("auto_chat_message", s, ss[s].message_count + 1,
          IF ss[s].message_count = 0 THEN "greeting" ELSE "themed")

\* the frame send_contextual_response builds for session id s
ReplyFrame(ss, s) ==
    Frame("auto_chat_message", s, ss[s].message_count + 1,
          IF ss[s].message_count > 0 THEN "reply_followup" ELSE "reply")

\* outcomes of websocket.send_text: to an open peer the frame is written;
\* to a closed peer the call raises or the frame is silently discarded,
\* depending on the ASGI server
SendOutcomes(c) == IF open[c] THEN {"ok"} ELSE {"lost", "raise"}

Delivered(c, frame, outcome) ==
    IF outcome = "ok" THEN [sent EXCEPT ![c] = Append(@, frame)] ELSE sent

\* a receive-loop task at position pc with no handler in progress
Task(pc, exit) ==
    [pc |-> pc, ctx |-> "", todo |-> <<>>, stopped |-> FALSE, cur |-> 0,
     theme |-> "", interval |-> 0, text |-> "", frame |-> NoFrame,
     exit |-> exit]

\* no broadcast is in progress.  i: index the list iterator reads next;
\* cur: connection being sent to; disconnected: the local list of
\* broadcast; n: number of the call.  History: targets is the registry when
\* the call began, calls the connections send_text was called on, failed
\* those on which it raised
NoBroadcast ==
    [pc |-> "idle", i |-> 0, cur |-> 0, disconnected |-> <<>>,
     targets |-> <<>>, calls |-> <<>>, failed |-> {}, n |-> 0]

\* ------------------------------------------------------------ Init
\* a synthesis connection not accepted yet.  k: chunks of the stream in
\* progress; echo: the result being sent is to be spoken; gone: websocket.receive() has returned the
\* disconnect message.  History: failed, a send raised on this websocket
NoTts ==
    [endpoint |-> "", pc |-> "new", k |-> 0, echo |-> FALSE,
     gone |-> FALSE, failed |-> FALSE]

\* no recognition result has been produced
NoConf == [segments |-> <<>>, path |-> "", confidence |-> 0]

\* no update_session_settings call has been made.  n: calls so far; sid,
\* interval: arguments of the last call; to, frame: the notification it
\* sends; ret: how it ended
NoUpdate ==
    [pc |-> "idle", n |-> 0, sid |-> 0, interval |-> 0, to |-> 0,
     frame |-> NoFrame, ret |-> ""]

\* WhisperSTT.__init__, and no /ws/stt handler yet.  audio_buffer: samples
\* held; threads: transcription threads running; result_queue: results
\* queued; discarded: chunks add_audio_chunk returned on without keeping;
\* hs[c]: the handler of c, started telling whether its generator's body
\* has begun
NewWhisperSTT ==
    [is_recording |-> FALSE, audio_buffer |-> 0, threads |-> 0,
     result_queue |-> 0, discarded |-> 0,
     hs |-> [c \in Conns |->
                [pc |-> "new", started |-> FALSE, text |-> "",
                 after |-> ""]]]

\* a MeloEngine with its model loaded and nothing synthesized.  queue:
\* the items put; stop: stop_synthesis_event; calls: synthesize calls made;
\* base: length of the queue when the last call began; audio, i: the array
\* and loop index of that call; is_set: what its last test of the stop
\* event found; cancelled: the loop broke; ret: what the call returned
NewMeloEngine ==
    [pc |-> "idle", queue |-> <<>>, stop |-> FALSE, calls |-> 0, base |-> 0,
     audio |-> <<>>, i |-> 0, is_set |-> FALSE, cancelled |-> FALSE,
     ret |-> ""]

\* StreamingSTTService.__init__, and no process_stream generator yet.
\* History: taken, the chunks the worker dequeued, each with what became
\* of it; yielded, the chunks a result was yielded for
NewService ==
    [is_initialized |-> FALSE, pc |-> "none", taken |-> <<>>,
     yielded |-> <<>>]

InitUnits ==
    /\ result = [c \in Conns |-> NoResult]
    /\ bc = NoBroadcast
    /\ tts = [c \in Conns |-> NoTts]
    /\ conf = NoConf
    /\ svc = NewService
    /\ upd = NoUpdate
    /\ raw = NewWhisperSTT
    /\ melo = NewMeloEngine

Init ==
    /\ active_connections = <<>>
    /\ open = [c \in Conns |-> TRUE]
    /\ h = [c \in Conns |-> Task("new", "")]
    /\ inbound = 0
    /\ sess = <<>>
    /\ active_sessions = <<>>
    /\ is_running = FALSE
    /\ background_tasks = 0
    /\ spc = "none"
    /\ snapshot = <<>>
    /\ scur = 0
    /\ sframe = NoFrame
    /\ wake = 0
    /\ now = 0
    /\ pause_until = <<>>
    /\ utterances = <<>>
    /\ InitUnits
    /\ sent = [c \in Conns |-> <<>>]
    /\ audio_queue = <<>>
    /\ cons = [c \in Conns |-> [pc |-> "none", frame |-> NoFrame]]
    /\ chunk_origin = <<>>
    /\ temp_files = {}
    /\ dropped = 0

schedVars == <<spc, snapshot, scur, sframe, wake>>

\* ------------------------------------------------- ConnectionManager.connect
\* handle_chat_websocket: await manager.connect(websocket)
Connect(c) ==
    /\ h[c].pc = "new"
    /\ active_connections' = Append(active_connections, c)
    /\ h' = [h EXCEPT ![c] = Task("recv", "")]
    /\ UNCHANGED <<unitVars, sttVars, open, inbound, sess, active_sessions, is_running,
                   background_tasks, schedVars, now, pause_until, utterances, sent>>

\* the client closes its end of the connection
PeerClose(c) ==
    /\ h[c].pc \notin {"new", "ended"}
    /\ open[c]
    /\ open' = [open EXCEPT ![c] = FALSE]
    /\ UNCHANGED <<unitVars, sttVars, active_connections, h, inbound, sess, active_sessions,
                   is_running, background_tasks, schedVars, now,
                   pause_until, utterances, sent>>

CanRecv(c) == h[c].pc = "recv" /\ open[c] /\ inbound < MaxInbound

\* begin manager.send_personal_message(frame, websocket); `ctx` tells what
\* the handler does once the send has returned
BeginPersonal(c, frame, ctx, text) ==
    h' = [h EXCEPT ![c] = [Task("personal_send", "") EXCEPT
                              !.frame = frame, !.ctx = ctx, !.text = text]]

\* an exception leaves handle_chat_websocket: the task ends, nothing is
\* cleaned up, and the server closes the socket
Crash(c, cause) ==
    /\ h' = [h EXCEPT ![c] = Task("ended", cause)]
    /\ open' = [open EXCEPT ![c] = FALSE]

\* ------------------------------------------------------------- inbound ping
\* the reply of _handle_ping; ts is message_data.get("timestamp", "")
ChatPong(ts) ==
    [type |-> "pong", timestamp |-> ts, server_time |-> "current_time"]

RecvPing(c, ts) ==
    /\ CanRecv(c)
    /\ inbound' = inbound + 1
    /\ BeginPersonal(c, ChatPong(ts), "", "")
    /\ UNCHANGED <<unitVars, sttVars, active_connections, open, sess, active_sessions, is_running,
                   background_tasks, schedVars, now, pause_until, utterances, sent>>

\* a text frame that json.loads rejects, or a JSON object without "type":
\* the exception is raised outside every try block of the handlers
RecvMalformed(c, kind) ==
    /\ CanRecv(c)
    /\ inbound' = inbound + 1
    /\ h' = [h EXCEPT ![c] = Task("ended", kind)]
    /\ open' = [open EXCEPT ![c] = FALSE]
    /\ UNCHANGED <<unitVars, sttVars, active_connections, sess, active_sessions, is_running,
                   background_tasks, schedVars, now, pause_until, utterances, sent>>

\* a JSON object whose "type" matches no branch: nothing is done
RecvUnknown(c) ==
    /\ CanRecv(c)
    /\ inbound' = inbound + 1
    /\ h' = [h EXCEPT ![c] = Task("recv", "")]
    /\ UNCHANGED <<unitVars, sttVars, active_connections, open, sess, active_sessions, is_running,
                   background_tasks, schedVars, now, pause_until, utterances, sent>>

\* _handle_auto_chat_message: synthesize the text and send the audio url
RecvAutoChatMessage(c, synth_ok) ==
    /\ CanRecv(c)
    /\ inbound' = inbound + 1
    /\ BeginPersonal(c,
                     IF synth_ok THEN Frame("auto_message_response", 0, 0, "")
                     ELSE Frame("error", 0, 0, ""), "", "")
    /\ UNCHANGED <<unitVars, sttVars, active_connections, open, sess, active_sessions, is_running,
                   background_tasks, schedVars, now, pause_until, utterances, sent>>

\* ---------------------------------------------------------- AutoChatManager
\* mutant: start_auto_chat that finds no earlier session to stop
sessions_to_remove_none(as, ss, c) == <<>>

\* stop_auto_chat_for_websocket: the ids collected by its first loop
sessions_to_remove(as, ss, c) == SelectIds(as, ss, c)

RECURSIVE SkipAbsent(_, _)
\* stop_auto_chat returns False at once for an id that is no longer a key
SkipAbsent(todo, as) ==
    IF todo = <<>> THEN <<>>
    ELSE IF InSeq(as, Head(todo)) THEN todo
    ELSE SkipAbsent(Tail(todo), as)

\* start_background_task, called by start_auto_chat when not is_running
StartBackground ==
    IF ~is_running
    THEN /\ is_running' = TRUE
         /\ background_tasks' = background_tasks + 1
         /\ spc' = "ready"
    ELSE UNCHANGED <<is_running, background_tasks, spc>>

\* start_auto_chat after its stop_auto_chat_for_websocket has returned: the
\* session is constructed and registered, the polling task is started and
\* the send of the first message is begun.  t is the task's record.
RegisterAndGreet(c, t, ss, as) ==
    LET sid == Len(ss) + 1
        s   == [NewSession(c, t.theme, t.interval, now)
                   EXCEPT !.is_active = TRUE]
        ss2 == Append(ss, s)
    IN  /\ sess' = ss2
        /\ active_sessions' = Append(as, sid)
        /\ pause_until' = Append(pause_until, 0)
        /\ utterances' = Append(utterances, <<>>)
        /\ StartBackground
        /\ h' = [h EXCEPT ![c] = [t EXCEPT !.pc = "greet_send", !.cur = sid,
                                           !.todo = <<>>,
                                           !.frame = AutoFrame(ss2, sid)]]
        /\ UNCHANGED <<active_connections, open, snapshot, scur, sframe, wake>>

\* the caller of stop_auto_chat_for_websocket goes on
AfterStop(c, t, ss, as) ==
    CASE t.ctx = "start" -> RegisterAndGreet(c, t, ss, as)
      [] t.ctx = "stop" ->
            /\ BeginPersonal(c,
                   Frame("auto_chat_stopped", 0, 0,
                         IF t.stopped THEN "stopped" ELSE "none"), "", "")
            /\ sess' = ss
            /\ active_sessions' = as
            /\ UNCHANGED <<active_connections, open, is_running,
                           background_tasks, schedVars, pause_until, utterances>>
      [] t.ctx = "close" ->
            \* except WebSocketDisconnect: ... manager.disconnect(websocket)
            /\ active_connections' = disconnect(active_connections, c)
            /\ h' = [h EXCEPT ![c] = Task("ended", "disconnect")]
            /\ sess' = ss
            /\ active_sessions' = as
            /\ UNCHANGED <<open, is_running, background_tasks, schedVars,
                           pause_until, utterances>>

\* the second loop of stop_auto_chat_for_websocket, up to the next await:
\* stop_auto_chat(id) marks the session inactive and begins the send of the
\* stop notification
StopLoop(c, t, todo, ss, as) ==
    LET rest == SkipAbsent(todo, as) IN
    IF rest # <<>>
    THEN /\ sess' = [ss EXCEPT ![Head(rest)].is_active = FALSE]
         /\ active_sessions' = as
         /\ h' = [h EXCEPT ![c] = [t EXCEPT !.pc = "stop_send",
                        !.todo = rest, !.cur = Head(rest),
                        !.frame = Frame("auto_chat_stop", Head(rest), 0, "")]]
         /\ UNCHANGED <<active_connections, open, is_running,
                        background_tasks, schedVars, pause_until, utterances>>
    ELSE AfterStop(c, t, ss, as)

\* an exception leaves stop_auto_chat_for_websocket: _handle_auto_chat_start
\* and _handle_auto_chat_stop answer with an error frame, the except clause
\* of handle_chat_websocket lets it through
StopRaised(c) ==
    IF h[c].ctx = "close"
    THEN /\ Crash(c, "stop_failed")
         /\ UNCHANGED <<active_connections, sess, active_sessions, is_running,
                        background_tasks, schedVars, pause_until, utterances>>
    ELSE /\ BeginPersonal(c, Frame("error", 0, 0, ""), "", "")
         /\ UNCHANGED <<active_connections, open, sess, active_sessions,
                        is_running, background_tasks, schedVars, pause_until, utterances>>

\* stop_auto_chat: the send of the stop notification returns, then
\* del self.active_sessions[session_id]
StopSendDone(c, outcome) ==
    /\ h[c].pc = "stop_send"
    /\ outcome \in SendOutcomes(c)
    /\ sent' = Delivered(c, h[c].frame, outcome)
    /\ IF outcome = "raise" \/ ~InSeq(active_sessions, h[c].cur)
       THEN StopRaised(c)   \* send failure, or KeyError of the del
       ELSE StopLoop(c, h[c], Tail(h[c].todo), sess,
                     Remove(active_sessions, h[c].cur))
    /\ UNCHANGED <<unitVars, sttVars, inbound, now>>

\* a handler enters stop_auto_chat_for_websocket(websocket)
EnterStop(c, ctx, theme, interval) ==
    LET todo == sessions_to_remove(active_sessions, sess, c)
        t == [Task("recv", "") EXCEPT !.ctx = ctx, !.theme = theme,
                  !.interval = interval, !.stopped = (todo # <<>>)]
    IN  StopLoop(c, t, todo, sess, active_sessions)

\* _handle_auto_chat_start
RecvAutoChatStart(c, theme, interval) ==
    /\ CanRecv(c)
    /\ Len(sess) < MaxSessions
    /\ inbound' = inbound + 1
    /\ EnterStop(c, "start", theme, interval)
    /\ UNCHANGED <<unitVars, sttVars, now, sent>>

\* _handle_auto_chat_stop
RecvAutoChatStop(c) ==
    /\ CanRecv(c)
    /\ inbound' = inbound + 1
    /\ EnterStop(c, "stop", "", 0)
    /\ UNCHANGED <<unitVars, sttVars, now, sent>>

\* receive_text raises WebSocketDisconnect: the except clause of
\* handle_chat_websocket
RecvDisconnect(c) ==
    /\ h[c].pc = "recv"
    /\ ~open[c]
    /\ EnterStop(c, "close", "", 0)
    /\ UNCHANGED <<unitVars, sttVars, inbound, now, sent>>

\* start_auto_chat: the send of the first message returns (the exception
\* of a failed send is caught by send_auto_message_with_text), then
\* _handle_auto_chat_start sends auto_chat_started
GreetSendDone(c, outcome) ==
    /\ h[c].pc = "greet_send"
    /\ outcome \in SendOutcomes(c)
    /\ sent' = Delivered(c, h[c].frame, outcome)
    /\ IF outcome = "raise"
       THEN /\ active_sessions' = Remove(active_sessions, h[c].cur)
            /\ sess' = sess
       ELSE /\ sess' = [sess EXCEPT
                          ![h[c].cur] = update_last_message_time(@, now)]
            /\ active_sessions' = active_sessions
    /\ BeginPersonal(c,
                     Frame("auto_chat_started", h[c].cur, 0, ""), "", "")
    /\ UNCHANGED <<unitVars, sttVars, active_connections, open, inbound, is_running,
                   background_tasks, schedVars, now, pause_until, utterances>>

RECURSIVE FirstActive(_, _, _)
\* handle_user_input: the first session of the dict that is bound to c and
\* is_active (0 if there is none)
FirstActive(as, ss, c) ==
    IF as = <<>> THEN 0
    ELSE IF ss[Head(as)].websocket = c /\ ss[Head(as)].is_active
         THEN Head(as)
    ELSE FirstActive(Tail(as), ss, c)

\* pause_auto_chat(session_id, duration) at time t
pause_auto_chat(s, duration, t) == [s EXCEPT !.last_message_time = t + duration]

\* _process_audio_message after handle_user_input: the response is
\* synthesized and sent, or the exception of the engine is reported
BeginResponse(c, synth_ok) ==
    BeginPersonal(c,
                  IF synth_ok THEN Frame("system_response", 0, 0, "")
                  ELSE Frame("error", 0, 0, ""), "", "")

\* _process_audio_message: the audio is transcribed and the send of
\* user_message is begun; an exception of the engine is reported instead
RecvAudio(c, text, stt_ok) ==
    /\ CanRecv(c)
    /\ inbound' = inbound + 1
    /\ IF stt_ok
       THEN BeginPersonal(c, Frame("user_message", 0, 0, ""),
                          "user_input", text)
       ELSE BeginPersonal(c, Frame("error", 0, 0, ""), "", "")
    /\ UNCHANGED <<unitVars, sttVars, active_connections, open, sess, active_sessions, is_running,
                   background_tasks, schedVars, now, pause_until, utterances, sent>>

\* handle_user_input(websocket, user_text) up to its first await
handle_user_input(c, synth_ok) ==
    LET s == FirstActive(active_sessions, sess, c) IN
    IF s = 0
    THEN /\ BeginResponse(c, synth_ok)
         /\ UNCHANGED <<sess, pause_until, utterances>>
    ELSE LET ss2 == [sess EXCEPT ![s] = pause_auto_chat(
                        add_user_response(@, h[c].text), UserPause, now)]
         IN /\ sess' = ss2
            /\ pause_until' = [pause_until EXCEPT ![s] = now + UserPause]
            /\ utterances' = [utterances EXCEPT ![s] = Append(@, h[c].text)]
            /\ h' = [h EXCEPT ![c] = [@ EXCEPT !.pc = "reply_send",
                          !.ctx = "", !.cur = s, !.frame = ReplyFrame(ss2, s)]]

\* ConnectionManager.send_personal_message: send_text returns or raises;
\* the exception is swallowed and the websocket is unregistered
PersonalSendDone(c, outcome, synth_ok) ==
    /\ h[c].pc = "personal_send"
    /\ outcome \in SendOutcomes(c)
    /\ sent' = Delivered(c, h[c].frame, outcome)
    /\ active_connections' =
          IF outcome = "raise" THEN disconnect(active_connections, c)
          ELSE active_connections
    /\ IF h[c].ctx = "user_input"
       THEN handle_user_input(c, synth_ok)
       ELSE /\ synth_ok
            /\ h' = [h EXCEPT ![c] = Task("recv", "")]
            /\ UNCHANGED <<sess, pause_until, utterances>>
    /\ UNCHANGED <<unitVars, sttVars, open, inbound, active_sessions, is_running,
                   background_tasks, schedVars, now>>

\* send_contextual_response: the send of the immediate reply returns
ReplySendDone(c, outcome, synth_ok) ==
    /\ h[c].pc = "reply_send"
    /\ outcome \in SendOutcomes(c)
    /\ sent' = Delivered(c, h[c].frame, outcome)
    /\ IF outcome = "raise"
       THEN /\ active_sessions' = Remove(active_sessions, h[c].cur)
            /\ sess' = sess
       ELSE /\ sess' = [sess EXCEPT
                          ![h[c].cur] = update_last_message_time(@, now)]
            /\ active_sessions' = active_sessions
    /\ BeginResponse(c, synth_ok)
    /\ UNCHANGED <<unitVars, sttVars, active_connections, open, inbound, is_running,
                   background_tasks, schedVars, now, pause_until, utterances>>

\* ------------------------------------------------------------ auto_chat_loop
RECURSIVE FirstDue(_, _, _)
\* index in snap of the first session that is_active and should_send_message
FirstDue(snap, ss, t) ==
    IF snap = <<>> THEN 0
    ELSE IF ss[Head(snap)].is_active /\ should_send_message(ss[Head(snap)], t)
         THEN 1
    ELSE LET r == FirstDue(Tail(snap), ss, t) IN IF r = 0 THEN 0 ELSE r + 1

\* the for loop of auto_chat_loop up to its next await: the send to the
\* next due session is begun, or the loop goes to sleep
Scan(snap, ss) ==
    LET i == FirstDue(snap, ss, now) IN
    IF i = 0
    THEN /\ spc' = "sleep"
         /\ wake' = now + TickPeriod
         /\ snapshot' = <<>>
         /\ scur' = 0
         /\ sframe' = NoFrame
    ELSE /\ spc' = "send"
         /\ scur' = snap[i]
         /\ sframe' = AutoFrame(ss, snap[i])
         /\ snapshot' = SubSeq(snap, i + 1, Len(snap))
         /\ wake' = wake

\* the loop task can run now: it was just created, or its sleep is over
SchedRunnable ==
    is_running /\ (spc = "ready" \/ (spc = "sleep" /\ now >= wake))

\* the loop task runs for the first time, or its sleep ends
SchedTick ==
    /\ SchedRunnable
    /\ Scan(active_sessions, sess)
    /\ UNCHANGED <<unitVars, sttVars, active_connections, open, h, inbound, sess, active_sessions,
                   is_running, background_tasks, now, pause_until, utterances, sent>>

\* mutant: the exception of a failed send leaves the for loop
sessions_left_abort(snap, outcome) ==
    IF outcome = "raise" THEN <<>> ELSE snap

\* the sessions the for loop of auto_chat_loop still visits once a send has
\* returned: send_auto_message_with_text catches every exception, so the
\* loop goes on whatever the outcome
sessions_left(snap, outcome) == snap

\* send_auto_message_with_text in the loop: the send returns
SchedSendDone(outcome) ==
    /\ spc = "send"
    /\ outcome \in SendOutcomes(sess[scur].websocket)
    /\ sent' = Delivered(sess[scur].websocket, sframe, outcome)
    /\ IF outcome = "raise"
       THEN /\ active_sessions' = Remove(active_sessions, scur)
            /\ sess' = sess
       ELSE /\ sess' = [sess EXCEPT ![scur] = update_last_message_time(@, now)]
            /\ active_sessions' = active_sessions
    /\ Scan(sessions_left(snapshot, outcome), sess')
    /\ UNCHANGED <<unitVars, sttVars, active_connections, open, h, inbound, is_running,
                   background_tasks, now, pause_until, utterances>>

\* time passes, by one tick period; a runnable loop task runs first (the
\* event loop is not blocked for a whole tick period)
AdvanceTo(limit) ==
    /\ now < limit
    /\ ~SchedRunnable
    /\ now' = now + TickPeriod
    /\ UNCHANGED <<unitVars, sttVars, active_connections, open, h, inbound, sess, active_sessions,
                   is_running, background_tasks, schedVars, pause_until, utterances, sent>>

Advance == AdvanceTo(MaxTime)

\* the chat endpoint: connections of /ws/chat and the polling loop
Next ==
    \/ \E c \in Conns : Connect(c)
    \/ \E c \in Conns : PeerClose(c)
    \/ \E c \in Conns, ts \in Timestamps : RecvPing(c, ts)
    \/ \E c \in Conns, kind \in {"bad_json", "no_type"} : RecvMalformed(c, kind)
    \/ \E c \in Conns : RecvUnknown(c)
    \/ \E c \in Conns, ok \in BOOLEAN : RecvAutoChatMessage(c, ok)
    \/ \E c \in Conns, text \in Texts, ok \in BOOLEAN : RecvAudio(c, text, ok)
    \/ \E c \in Conns, th \in Themes, i \in Intervals :
          RecvAutoChatStart(c, th, i)
    \/ \E c \in Conns : RecvAutoChatStop(c)
    \/ \E c \in Conns : RecvDisconnect(c)
    \/ \E c \in Conns, o \in {"ok", "lost", "raise"} : StopSendDone(c, o)
    \/ \E c \in Conns, o \in {"ok", "lost", "raise"} : GreetSendDone(c, o)
    \/ \E c \in Conns, o \in {"ok", "lost", "raise"}, ok \in BOOLEAN :
          PersonalSendDone(c, o, ok)
    \/ \E c \in Conns, o \in {"ok", "lost", "raise"}, ok \in BOOLEAN :
          ReplySendDone(c, o, ok)
    \/ SchedTick
    \/ \E o \in {"ok", "lost", "raise"} : SchedSendDone(o)
    \/ Advance

Spec == Init /\ [][Next]_vars

\* ------------------------------------------------- the polling loop, longer
\* the same endpoint over a longer time, with clients that only start auto
\* chat (interval TickPeriod) and never close
AdvanceLate == AdvanceTo(MaxLateTime)

NextLoop ==
    \/ \E c \in Conns : Connect(c)
    \/ \E c \in Conns, th \in Themes : RecvAutoChatStart(c, th, TickPeriod)
    \/ \E c \in Conns : StopSendDone(c, "ok")
    \/ \E c \in Conns : GreetSendDone(c, "ok")
    \/ \E c \in Conns : PersonalSendDone(c, "ok", TRUE)
    \/ SchedTick
    \/ SchedSendDone("ok")
    \/ AdvanceLate

SpecLoop == Init /\ [][NextLoop]_vars

\* ------------------------------------------------- stop_background_task
\* the polling task that start_background_task created last is alive and
\* has not been cancelled
TaskCurrent == IF spc = "none" THEN 0 ELSE 1

\* stop_background_task up to its await: is_running is cleared and the
\* polling task is cancelled; the CancelledError reaches it when the event
\* loop runs it next, so the task stays alive until then.  Without
\* is_running there is nothing to clear and no task to cancel.
StopBackgroundTask ==
    /\ is_running
    /\ is_running' = FALSE
    /\ spc' = "none"
    /\ snapshot' = <<>>
    /\ scur' = 0
    /\ sframe' = NoFrame
    /\ UNCHANGED <<unitVars, sttVars, active_connections, open, h, inbound,
                   sess, active_sessions, background_tasks, wake, now,
                   pause_until, utterances, sent>>

\* a cancelled polling task is run: CancelledError is raised at its await
\* and the task ends
CancelDelivered ==
    /\ background_tasks > TaskCurrent
    /\ background_tasks' = background_tasks - 1
    /\ UNCHANGED <<unitVars, sttVars, active_connections, open, h, inbound,
                   sess, active_sessions, is_running, schedVars, now,
                   pause_until, utterances, sent>>

\* the chat endpoint with clients that only start auto chat and never
\* close, and a caller of stop_background_task
NextTasks ==
    \/ \E c \in Conns : Connect(c)
    \/ \E c \in Conns, th \in Themes : RecvAutoChatStart(c, th, TickPeriod)
    \/ \E c \in Conns : StopSendDone(c, "ok")
    \/ \E c \in Conns : GreetSendDone(c, "ok")
    \/ \E c \in Conns : PersonalSendDone(c, "ok", TRUE)
    \/ SchedTick
    \/ SchedSendDone("ok")
    \/ Advance
    \/ StopBackgroundTask
    \/ CancelDelivered

SpecTasks == Init /\ [][NextTasks]_vars

\* ---------------------------------------------- update_session_settings
\* arguments a caller gives; "none" stands for None
SettingsIntervals == Intervals \cup {30}
SettingsThemes == {"none", "story"}

\* the interval update_session_settings stores for the argument x
stored_interval_unclamped(x) == x

stored_interval(x) == Max(MinInterval, Min(MaxInterval, x))

\* update_session_settings(id, theme, interval) up to its await: for a key
\* of active_sessions the session is changed and the send of the
\* notification is begun; for any other id False is returned
UpdateSessionSettings(id, theme, interval) ==
    /\ upd.pc = "idle"
    /\ upd.n < MaxUpdates
    /\ IF InSeq(active_sessions, id)
       THEN LET s == [sess[id] EXCEPT
                        !.theme = IF theme = "none" THEN @ ELSE theme,
                        !.interval = stored_interval(interval)]
            IN  /\ sess' = [sess EXCEPT ![id] = s]
                /\ upd' = [pc |-> "send", n |-> upd.n + 1, sid |-> id,
                           interval |-> interval, to |-> s.websocket,
                           frame |-> [type |-> "auto_chat_settings_updated",
                                      sid |-> id, theme |-> s.theme,
                                      interval |-> s.interval],
                           ret |-> ""]
       ELSE /\ sess' = sess
            /\ upd' = [NoUpdate EXCEPT !.n = upd.n + 1, !.sid = id,
                                       !.interval = interval,
                                       !.ret = "False"]
    /\ UNCHANGED <<result, bc, tts, conf, svc, raw, melo, sttVars, active_connections,
                   open, h, inbound, active_sessions, is_running,
                   background_tasks, schedVars, now, pause_until, utterances,
                   sent>>

\* the send of the notification returns, and True is returned, or raises:
\* send_websocket_message re-raises and so does update_session_settings
UpdateSettingsSendDone(outcome) ==
    /\ upd.pc = "send"
    /\ outcome \in SendOutcomes(upd.to)
    /\ sent' = Delivered(upd.to, upd.frame, outcome)
    /\ upd' = [upd EXCEPT !.pc = "idle",
                          !.ret = IF outcome = "raise" THEN "raise"
                                  ELSE "True"]
    /\ UNCHANGED <<result, bc, tts, conf, svc, raw, melo, sttVars, active_connections,
                   open, h, inbound, sess, active_sessions, is_running,
                   background_tasks, schedVars, now, pause_until,
                   utterances>>

\* the chat endpoint with clients that start auto chat, and a caller of
\* update_session_settings
NextSettings ==
    \/ \E c \in Conns : Connect(c)
    \/ \E c \in Conns : PeerClose(c)
    \/ \E c \in Conns, th \in Themes, i \in Intervals :
          RecvAutoChatStart(c, th, i)
    \/ \E c \in Conns, o \in {"ok", "lost", "raise"} : StopSendDone(c, o)
    \/ \E c \in Conns, o \in {"ok", "lost", "raise"} : GreetSendDone(c, o)
    \/ \E c \in Conns, o \in {"ok", "lost", "raise"} :
          PersonalSendDone(c, o, TRUE)
    \/ \E id \in 1..MaxSessions, th \in SettingsThemes,
          i \in SettingsIntervals : UpdateSessionSettings(id, th, i)
    \/ \E o \in {"ok", "lost", "raise"} : UpdateSettingsSendDone(o)

SpecSettings == Init /\ [][NextSettings]_vars

\* ------------------------------------------- AutoChatSession on its own
\* one AutoChatSession object has been constructed, with any arguments
InitSession ==
    /\ \E c \in Conns, th \in Themes, i \in Intervals :
          sess = <<NewSession(c, th, i, 0)>>
    /\ utterances = <<<<>>>>
    /\ pause_until = <<0>>
    /\ active_connections = <<>>
    /\ open = [c \in Conns |-> TRUE]
    /\ h = [c \in Conns |-> Task("new", "")]
    /\ inbound = 0
    /\ active_sessions = <<>>
    /\ is_running = FALSE
    /\ background_tasks = 0
    /\ spc = "none"
    /\ snapshot = <<>>
    /\ scur = 0
    /\ sframe = NoFrame
    /\ wake = 0
    /\ now = 0
    /\ InitUnits
    /\ sent = [c \in Conns |-> <<>>]
    /\ audio_queue = <<>>
    /\ cons = [c \in Conns |-> [pc |-> "none", frame |-> NoFrame]]
    /\ chunk_origin = <<>>
    /\ temp_files = {}
    /\ dropped = 0

\* session.add_user_response(text)
AddUserResponse(text) ==
    /\ Len(utterances[1]) < MaxUtterances
    /\ sess' = [sess EXCEPT ![1] = add_user_response(@, text)]
    /\ utterances' = [utterances EXCEPT ![1] = Append(@, text)]
    /\ UNCHANGED <<unitVars, sttVars, active_connections, open, h, inbound,
                   active_sessions, is_running, background_tasks, schedVars,
                   now, pause_until, sent>>

NextSession == \E text \in Utterances : AddUserResponse(text)

SpecSession == InitSession /\ [][NextSession]_vars

\* the AutoChatManager variables that other endpoints do not touch
idleChatVars == <<sess, active_sessions, is_running, background_tasks,
                  schedVars, now, pause_until, utterances>>

\* ------------------------------------------ ConnectionManager on its own
\* the manager driven through its public methods, by any callers and in
\* any order; h[c] is the caller that is inside send_personal_message on c
\* ("new": there is none)

\* what send_personal_message gives back to its caller: the exception is
\* caught inside, the function falls off its end either way
send_personal_message_returns(outcome) == "None"

\* await manager.connect(websocket), where accept() returns
CmConnect(c) ==
    /\ Len(active_connections) < MaxRegistered
    /\ active_connections' = Append(active_connections, c)
    /\ UNCHANGED <<unitVars, sttVars, idleChatVars, open, h, inbound, sent>>

\* manager.disconnect(websocket)
CmDisconnect(c) ==
    /\ InSeq(active_connections, c)
    /\ active_connections' = disconnect(active_connections, c)
    /\ UNCHANGED <<unitVars, sttVars, idleChatVars, open, h, inbound, sent>>

\* from now on websocket.send_text fails
CmPeerClose(c) ==
    /\ open[c]
    /\ open' = [open EXCEPT ![c] = FALSE]
    /\ UNCHANGED <<unitVars, sttVars, idleChatVars, active_connections, h,
                   inbound, sent>>

\* await manager.send_personal_message(message, websocket) is called
CmSendBegin(c) ==
    /\ h[c].pc = "new"
    /\ Len(sent[c]) < MaxCmSent
    /\ BeginPersonal(c, Frame("message", 0, 0, ""), "", "")
    /\ UNCHANGED <<unitVars, sttVars, idleChatVars, active_connections, open,
                   inbound, sent>>

\* send_text returns or raises, and send_personal_message returns
CmSendDone(c, outcome) ==
    /\ h[c].pc = "personal_send"
    /\ outcome \in SendOutcomes(c)
    /\ sent' = Delivered(c, h[c].frame, outcome)
    /\ active_connections' =
          IF outcome = "raise" THEN disconnect(active_connections, c)
          ELSE active_connections
    /\ result' = [result EXCEPT ![c] =
          [write |-> outcome, ret |-> send_personal_message_returns(outcome)]]
    /\ h' = [h EXCEPT ![c] = Task("new", "")]
    /\ UNCHANGED <<sttVars, idleChatVars, open, inbound, bc, tts, conf, svc, upd, raw, melo>>

RECURSIVE DisconnectAll(_, _)
\* broadcast: for connection in disconnected: self.disconnect(connection)
DisconnectAll(ac, disc) ==
    IF disc = <<>> THEN ac
    ELSE DisconnectAll(disconnect(ac, Head(disc)), Tail(disc))

\* the record of a broadcast that begins now
NewBroadcast ==
    [NoBroadcast EXCEPT !.i = 1, !.n = bc.n + 1,
                        !.targets = active_connections]

\* broadcast: `for connection in self.active_connections` takes its next
\* element from the list as it is now and the send is begun, or the list is
\* exhausted and the connections that failed are disconnected
BcStep(b) ==
    IF b.i <= Len(active_connections)
    THEN /\ bc' = [b EXCEPT !.pc = "send", !.cur = active_connections[b.i],
                      !.i = b.i + 1,
                      !.calls = Append(b.calls, active_connections[b.i])]
         /\ active_connections' = active_connections
    ELSE /\ bc' = [b EXCEPT !.pc = "idle", !.cur = 0]
         /\ active_connections' =
               DisconnectAll(active_connections, b.disconnected)

\* await manager.broadcast(message) is called
CmBroadcastBegin ==
    /\ bc.pc = "idle"
    /\ bc.n < MaxBroadcasts
    /\ BcStep(NewBroadcast)
    /\ UNCHANGED <<result, tts, conf, svc, upd, raw, melo, sttVars, idleChatVars, open, h, inbound, sent>>

\* broadcast: connection.send_text returns or raises
CmBroadcastSendDone(outcome) ==
    /\ bc.pc = "send"
    /\ outcome \in SendOutcomes(bc.cur)
    /\ sent' = Delivered(bc.cur, Frame("broadcast", 0, bc.n, ""), outcome)
    /\ BcStep(IF outcome = "raise"
              THEN [bc EXCEPT !.disconnected = Append(@, bc.cur),
                              !.failed = @ \cup {bc.cur}]
              ELSE bc)
    /\ UNCHANGED <<result, tts, conf, svc, upd, raw, melo, sttVars, idleChatVars, open, h, inbound>>

NextManager ==
    \/ \E c \in Conns : CmConnect(c)
    \/ \E c \in Conns : CmDisconnect(c)
    \/ \E c \in Conns : CmPeerClose(c)
    \/ \E c \in Conns : CmSendBegin(c)
    \/ \E c \in Conns, o \in {"ok", "lost", "raise"} : CmSendDone(c, o)

SpecManager == Init /\ [][NextManager]_vars

\* the manager with callers that connect, disconnect and broadcast
NextBroadcast ==
    \/ \E c \in Conns : CmConnect(c)
    \/ \E c \in Conns : CmDisconnect(c)
    \/ \E c \in Conns : CmPeerClose(c)
    \/ CmBroadcastBegin
    \/ \E o \in {"ok", "lost", "raise"} : CmBroadcastSendDone(o)

SpecBroadcast == Init /\ [][NextBroadcast]_vars

\* ------------------------------ the ConnectionManager of web_voice_chat.py
\* the class of the same name that web_voice_chat.py defines for itself,
\* driven through its public methods

\* await manager.connect(websocket), where accept() returns
VmConnect(c) ==
    /\ Len(active_connections) < MaxRegistered
    /\ active_connections' = Append(active_connections, c)
    /\ UNCHANGED <<unitVars, sttVars, idleChatVars, open, h, inbound, sent>>

\* manager.disconnect(websocket): list.remove raises ValueError for a
\* websocket that is not in the list
VmDisconnect(c) ==
    /\ active_connections' = Remove(active_connections, c)
    /\ result' = [result EXCEPT ![c] =
          [write |-> "",
           ret |-> IF InSeq(active_connections, c) THEN "None"
                   ELSE "ValueError"]]
    /\ UNCHANGED <<bc, tts, conf, svc, upd, raw, melo, sttVars, idleChatVars, open, h, inbound, sent>>

\* from now on websocket.send_text fails
VmPeerClose(c) ==
    /\ open[c]
    /\ open' = [open EXCEPT ![c] = FALSE]
    /\ UNCHANGED <<unitVars, sttVars, idleChatVars, active_connections, h,
                   inbound, sent>>

\* broadcast: the for loop takes its next element and the send is begun, or
\* the list is exhausted
VmStep(b) ==
    IF b.i <= Len(active_connections)
    THEN bc' = [b EXCEPT !.pc = "send", !.cur = active_connections[b.i],
                   !.i = b.i + 1,
                   !.calls = Append(b.calls, active_connections[b.i])]
    ELSE bc' = [b EXCEPT !.pc = "idle", !.cur = 0]

\* await manager.broadcast(message) is called
VmBroadcastBegin ==
    /\ bc.pc = "idle"
    /\ bc.n < MaxBroadcasts
    /\ VmStep(NewBroadcast)
    /\ UNCHANGED <<result, tts, conf, svc, upd, raw, melo, sttVars, idleChatVars, active_connections, open,
                   h, inbound, sent>>

\* broadcast: connection.send_text returns, or raises and the exception
\* leaves broadcast
VmBroadcastSendDone(outcome) ==
    /\ bc.pc = "send"
    /\ outcome \in SendOutcomes(bc.cur)
    /\ sent' = Delivered(bc.cur, Frame("broadcast", 0, bc.n, ""), outcome)
    /\ IF outcome = "raise"
       THEN bc' = [bc EXCEPT !.pc = "idle", !.cur = 0,
                            !.failed = @ \cup {bc.cur}]
       ELSE VmStep(bc)
    /\ UNCHANGED <<result, tts, conf, svc, upd, raw, melo, sttVars, idleChatVars, active_connections, open,
                   h, inbound>>

NextVoiceManager ==
    \/ \E c \in Conns : VmConnect(c)
    \/ \E c \in Conns : VmDisconnect(c)
    \/ \E c \in Conns : VmPeerClose(c)
    \/ VmBroadcastBegin
    \/ \E o \in {"ok", "lost", "raise"} : VmBroadcastSendDone(o)

SpecVoiceManager == Init /\ [][NextVoiceManager]_vars

\* ------------------------------------- /ws/tts and /ws/conversation streams
\* the other variables of a synthesis connection's steps
ttsIdle == <<result, bc, conf, svc, upd, raw, melo, sttVars, idleChatVars, active_connections, h>>

\* a websocket on which a send has raised keeps raising; otherwise a send
\* to a closed peer raises or is silently discarded
TtsSendOutcomes(c) ==
    IF open[c] THEN {"ok"}
    ELSE IF tts[c].failed THEN {"raise"} ELSE {"lost", "raise"}

\* websocket.accept(), then the engine and its stream are constructed and
\* the greeting text is sent; without an engine the socket is closed
TtsAccept(c, endpoint, available) ==
    /\ tts[c].pc = "new"
    /\ tts' = [tts EXCEPT ![c] =
                 [@ EXCEPT !.endpoint = endpoint,
                           !.pc = IF available THEN "connected_send"
                                  ELSE "ended"]]
    /\ UNCHANGED <<ttsIdle, inbound, open, sent>>

\* the client closes its end
TtsPeerClose(c) ==
    /\ tts[c].pc \notin {"new", "ended"}
    /\ open[c]
    /\ open' = [open EXCEPT ![c] = FALSE]
    /\ UNCHANGED <<ttsIdle, inbound, tts, sent>>

TtsCanRecv(c) ==
    /\ tts[c].pc = "recv"
    /\ open[c]
    /\ inbound < MaxInbound

\* a text to synthesise (on /ws/conversation, a "TTS:" text): the start
\* marker is sent
TtsRecvText(c) ==
    /\ TtsCanRecv(c)
    /\ inbound' = inbound + 1
    /\ tts' = [tts EXCEPT ![c] = [@ EXCEPT !.pc = "start_send", !.k = 0]]
    /\ UNCHANGED <<ttsIdle, open, sent>>

\* a command.  "changed", "change_error": one text is sent and the loop
\* continues; "bad_speaker": int() raises on /ws/tts, "set_raises":
\* set_voice_parameters raises on /ws/conversation, and the except clause
\* of the loop sends an error text and breaks; "end": END_CONVERSATION
TtsRecvCommand(c, kind) ==
    /\ TtsCanRecv(c)
    /\ kind \in (IF tts[c].endpoint = "tts"
                 THEN {"changed", "change_error", "bad_speaker"}
                 ELSE {"changed", "set_raises", "end"})
    /\ inbound' = inbound + 1
    /\ tts' = [tts EXCEPT ![c] =
                 [@ EXCEPT !.pc = IF kind \in {"changed", "change_error"}
                                  THEN "reply_send" ELSE "last_send"]]
    /\ UNCHANGED <<ttsIdle, open, sent>>

\* next(streaming_generator) of /ws/conversation.  "text": a result is sent
\* and echoed as speech; "blank": a result of white space is sent; "none":
\* nothing is sent; "stop": StopIteration, the loop is left
AfterStt(t, stt) ==
    CASE stt = "text" -> [t EXCEPT !.pc = "result_send", !.echo = TRUE]
      [] stt = "blank" -> [t EXCEPT !.pc = "result_send", !.echo = FALSE]
      [] stt = "none" -> [t EXCEPT !.pc = "recv"]
      [] stt = "stop" -> [t EXCEPT !.pc = "ended"]

\* /ws/conversation: a binary frame, or a text that is no command
TtsRecvAudio(c, stt) ==
    /\ TtsCanRecv(c)
    /\ tts[c].endpoint = "conversation"
    /\ inbound' = inbound + 1
    /\ tts' = [tts EXCEPT ![c] = AfterStt(@, stt)]
    /\ UNCHANGED <<ttsIdle, open, sent>>

\* the peer has closed.  /ws/tts: receive_text raises WebSocketDisconnect.
\* /ws/conversation: receive() returns the disconnect message and the
\* generator is polled; a second receive() raises RuntimeError, for which
\* the except clause sends an error text and breaks
TtsRecvDisconnect(c, stt) ==
    /\ tts[c].pc = "recv"
    /\ ~open[c]
    /\ tts' = [tts EXCEPT ![c] =
                 IF tts[c].endpoint = "tts" THEN [@ EXCEPT !.pc = "ended"]
                 ELSE IF tts[c].gone THEN [@ EXCEPT !.pc = "last_send"]
                 ELSE AfterStt([@ EXCEPT !.gone = TRUE], stt)]
    /\ UNCHANGED <<ttsIdle, inbound, open, sent>>

\* the text frame a send_text of the handler writes
TtsFrame(pc) ==
    Frame(CASE pc = "connected_send" -> "connected"
            [] pc = "start_send" -> "|AUDIO_START|"
            [] pc = "end_send" -> "|AUDIO_END|"
            [] pc = "reply_send" -> "reply"
            [] pc = "result_send" -> "stt_result"
            [] pc = "last_send" -> "last", 0, 0, "")

\* where the handler goes once a send_text has returned
TtsAfterSend_no_stream(pc, echo) ==
    CASE pc = "start_send" -> "recv"
      [] pc = "result_send" -> IF echo THEN "start_send" ELSE "recv"
      [] pc = "last_send" -> "ended"
      [] OTHER -> "recv"

TtsAfterSend(pc, echo) ==
    CASE pc = "start_send" -> "stream"
      [] pc = "result_send" -> IF echo THEN "start_send" ELSE "recv"
      [] pc = "last_send" -> "ended"
      [] OTHER -> "recv"

\* a send_text of the handler returns or raises.  When it raises the loop
\* is left: at once for WebSocketDisconnect, and for any other exception
\* after an error text is tried on the same websocket, which raises too
TtsSendDone(c, outcome) ==
    /\ tts[c].pc \in {"connected_send", "start_send", "end_send",
                      "reply_send", "result_send", "last_send"}
    /\ outcome \in TtsSendOutcomes(c)
    /\ sent' = Delivered(c, TtsFrame(tts[c].pc), outcome)
    /\ tts' = [tts EXCEPT ![c] =
                 IF outcome = "raise"
                 THEN [@ EXCEPT !.pc = "ended", !.failed = TRUE]
                 ELSE [@ EXCEPT !.pc = TtsAfterSend(tts[c].pc, tts[c].echo),
                                !.k = 0]]
    /\ UNCHANGED <<ttsIdle, inbound, open>>

\* stream_tts_audio: audio_queue.get gives the next chunk, whose send_bytes
\* is begun, or None, which ends the loop; the handler then sends the end
\* marker
TtsNextChunk(c, more) ==
    /\ tts[c].pc = "stream"
    /\ more => tts[c].k < MaxTtsChunks
    /\ tts' = [tts EXCEPT ![c] =
                 IF more
                 THEN [@ EXCEPT !.pc = "chunk_send", !.k = @ + 1]
                 ELSE [@ EXCEPT !.pc = "end_send"]]
    /\ UNCHANGED <<ttsIdle, inbound, open, sent>>

\* the loop of stream_tts_audio goes on after a send_bytes: "except
\* Exception: break" leaves it when the call raised
stream_goes_on_always(outcome) == TRUE

stream_goes_on(outcome) == outcome # "raise"

\* send_bytes returns or raises
TtsChunkSendDone(c, outcome) ==
    /\ tts[c].pc = "chunk_send"
    /\ outcome \in TtsSendOutcomes(c)
    /\ sent' = Delivered(c, Frame("audio", 0, 0, ""), outcome)
    /\ tts' = [tts EXCEPT ![c] =
                 [@ EXCEPT !.failed = @ \/ outcome = "raise",
                           !.pc = IF stream_goes_on(outcome) THEN "stream"
                                  ELSE "end_send"]]
    /\ UNCHANGED <<ttsIdle, inbound, open>>

NextTTS ==
    \/ \E c \in Conns, e \in {"tts", "conversation"}, a \in BOOLEAN :
          TtsAccept(c, e, a)
    \/ \E c \in Conns : TtsPeerClose(c)
    \/ \E c \in Conns : TtsRecvText(c)
    \/ \E c \in Conns,
          k \in {"changed", "change_error", "bad_speaker", "set_raises",
                 "end"} : TtsRecvCommand(c, k)
    \/ \E c \in Conns, s \in {"text", "blank", "none", "stop"} :
          TtsRecvAudio(c, s)
    \/ \E c \in Conns, s \in {"text", "blank", "none", "stop"} :
          TtsRecvDisconnect(c, s)
    \/ \E c \in Conns, o \in {"ok", "lost", "raise"} : TtsSendDone(c, o)
    \/ \E c \in Conns, m \in BOOLEAN : TtsNextChunk(c, m)
    \/ \E c \in Conns, o \in {"ok", "lost", "raise"} : TtsChunkSendDone(c, o)

SpecTTS == Init /\ [][NextTTS]_vars

\* ------------------------------------------------- recognition confidence
\* Numbers are in thousandths: 1000 is 1.0.  The avg_logprob values below
\* are multiples of 0.5, so every division of the two formulas is exact.
MaxSegments == 2
LogProbs == {-2000, -1500, -1000, -500, 0, 500, 1000}

\* the results the engine may give: up to MaxSegments segments
SegmentLists ==
    UNION {[1..n -> LogProbs] : n \in 0..MaxSegments}

RECURSIVE SumSeq(_)
SumSeq(seq) == IF seq = <<>> THEN 0 ELSE Head(seq) + SumSeq(Tail(seq))

\* max(0, min(1, x))
Clamp01(x) == Max(0, Min(1000, x))

\* transcribe_chunk: every segment's avg_logprob + 1 is clamped, and the
\* mean of the clamped values is reported
streaming_confidence(segments) ==
    SumSeq([i \in 1..Len(segments) |-> Clamp01(segments[i] + 1000)])
        \div Max(Len(segments), 1)

\* _process_audio_message: the mean avg_logprob is mapped by (x + 1) / 2
\* and clamped; 0.0 without segments; round(confidence, 3) keeps thousandths
handler_confidence(segments) ==
    IF segments = <<>> THEN 0
    ELSE Clamp01(((SumSeq(segments) \div Len(segments)) + 1000) \div 2)

\* WhisperSTT._calculate_confidence: (avg_logprob + 1) / 2 of every segment
\* is clamped and the mean of the clamped values is returned; 0.0 without
\* segments
whisper_confidence(segments) ==
    IF segments = <<>> THEN 0
    ELSE SumSeq([i \in 1..Len(segments) |->
                    Clamp01((segments[i] + 1000) \div 2)])
             \div Len(segments)

confIdle == <<result, bc, tts, svc, upd, raw, melo, sttVars, chatVars>>

\* streaming path: a chunk is transcribed
TranscribeChunk(segments) ==
    /\ conf' = [segments |-> segments, path |-> "streaming",
                confidence |-> streaming_confidence(segments)]
    /\ UNCHANGED confIdle

\* /ws/stt: an audio message is transcribed
ProcessAudioMessage(segments) ==
    /\ conf' = [segments |-> segments, path |-> "ws_stt",
                confidence |-> handler_confidence(segments)]
    /\ UNCHANGED confIdle

\* WhisperSTT.transcribe_audio: the confidence of its result
CalculateConfidence(segments) ==
    /\ conf' = [segments |-> segments, path |-> "whisper",
                confidence |-> whisper_confidence(segments)]
    /\ UNCHANGED confIdle

NextConfidence ==
    \/ \E segments \in SegmentLists : TranscribeChunk(segments)
    \/ \E segments \in SegmentLists : ProcessAudioMessage(segments)
    \/ \E segments \in SegmentLists : CalculateConfidence(segments)

SpecConfidence == Init /\ [][NextConfidence]_vars

\* ------------------------------------------------------ StreamingSTTService
\* asyncio.Queue.full()
QueueFull(q) == AudioQueueMaxsize > 0 /\ Len(q) >= AudioQueueMaxsize

\* audio_queue.put_nowait(chunk) inside its try: QueueFull is caught
put_nowait(q, chunk) == IF QueueFull(q) THEN q ELSE Append(q, chunk)

CanRecvStt(c) == h[c].pc = "recv" /\ open[c]

\* processing_task.cancel()
Cancelled(c) == [cons EXCEPT ![c] = [pc |-> "done", frame |-> NoFrame]]

\* websocket_streaming_stt: manager.connect, then the processing task is
\* created and waits on the shared queue
SttConnect(c) ==
    /\ h[c].pc = "new"
    /\ active_connections' = Append(active_connections, c)
    /\ h' = [h EXCEPT ![c] = Task("recv", "")]
    /\ cons' = [cons EXCEPT ![c] = [pc |-> "waiting", frame |-> NoFrame]]
    /\ UNCHANGED <<unitVars, idleChatVars, open, inbound, sent, audio_queue, chunk_origin, temp_files,
                   dropped>>

\* an audio_chunk frame: streaming_stt_service.add_audio_chunk, which does
\* not await: the temporary file is written and the chunk is queued
SttRecvChunk(c) ==
    /\ CanRecvStt(c)
    /\ Len(chunk_origin) < MaxChunks
    /\ LET k == Len(chunk_origin) + 1 IN
       /\ chunk_origin' = Append(chunk_origin, c)
       /\ temp_files' = temp_files \cup {k}
       /\ audio_queue' = put_nowait(audio_queue, k)
       /\ dropped' = IF QueueFull(audio_queue) THEN dropped + 1 ELSE dropped
    /\ UNCHANGED <<unitVars, idleChatVars, active_connections, open, h, inbound, sent, cons>>

\* the reply of websocket_streaming_stt to a ping
SttPong(ts) == [type |-> "pong", timestamp |-> ts]

\* an audio_chunk frame whose data base64.b64decode rejects, a ping or a
\* start_stream: one frame is sent back
SttRecvReply(c, kind) ==
    /\ CanRecvStt(c)
    /\ inbound < MaxSttFrames
    /\ inbound' = inbound + 1
    /\ BeginPersonal(c,
          CASE kind = "ping" -> SttPong("T")
            [] kind = "start_stream" -> Frame("stream_started", 0, 0, "")
            [] kind = "bad_chunk" -> Frame("error", 0, 0, ""), "", "")
    /\ UNCHANGED <<unitVars, idleChatVars, active_connections, open, sent, sttVars>>

\* stop_stream: the processing task is cancelled, stream_stopped is sent
\* and the receive loop is left
SttRecvStopStream(c) ==
    /\ CanRecvStt(c)
    /\ inbound < MaxSttFrames
    /\ inbound' = inbound + 1
    /\ cons' = Cancelled(c)
    /\ BeginPersonal(c, Frame("stream_stopped", 0, 0, ""), "break", "")
    /\ UNCHANGED <<unitVars, idleChatVars, active_connections, open, sent, audio_queue, chunk_origin,
                   temp_files, dropped>>

\* a frame json.loads rejects: except Exception cancels the processing task
SttRecvMalformed(c) ==
    /\ CanRecvStt(c)
    /\ inbound < MaxSttFrames
    /\ inbound' = inbound + 1
    /\ cons' = Cancelled(c)
    /\ h' = [h EXCEPT ![c] = Task("ended", "bad_json")]
    /\ open' = [open EXCEPT ![c] = FALSE]
    /\ UNCHANGED <<unitVars, idleChatVars, active_connections, sent, audio_queue, chunk_origin,
                   temp_files, dropped>>

\* receive_text raises WebSocketDisconnect
SttRecvDisconnect(c) ==
    /\ h[c].pc = "recv"
    /\ ~open[c]
    /\ cons' = Cancelled(c)
    /\ active_connections' = Remove(active_connections, c)
    /\ h' = [h EXCEPT ![c] = Task("ended", "disconnect")]
    /\ UNCHANGED <<unitVars, idleChatVars, open, inbound, sent, audio_queue, chunk_origin, temp_files,
                   dropped>>

\* the send_personal_message of web_voice_chat.py returns or raises: its
\* exception is not caught before the except clauses of the endpoint
SttSendDone(c, outcome) ==
    /\ h[c].pc = "personal_send"
    /\ outcome \in SendOutcomes(c)
    /\ sent' = Delivered(c, h[c].frame, outcome)
    /\ IF outcome = "raise"
       THEN /\ cons' = Cancelled(c)
            /\ h' = [h EXCEPT ![c] = Task("ended", "send_failed")]
       ELSE /\ cons' = cons
            /\ h' = [h EXCEPT ![c] =
                       IF h[c].ctx = "break" THEN Task("ended", "stop_stream")
                       ELSE Task("recv", "")]
    /\ UNCHANGED <<unitVars, idleChatVars, active_connections, open, inbound, audio_queue,
                   chunk_origin, temp_files, dropped>>

\* process_stream: a waiting task takes the next chunk of the shared queue
\* and transcribes it (the engine was loaded at startup, so transcribe_chunk
\* does not await); the temporary file is unlinked; a non-empty text is
\* yielded and its send is begun
ConsumerStep(c, outcome) ==
    /\ cons[c].pc = "waiting"
    /\ audio_queue # <<>>
    /\ audio_queue' = Tail(audio_queue)
    /\ temp_files' = temp_files \ {Head(audio_queue)}
    /\ cons' = [cons EXCEPT ![c] =
                  IF outcome = "text"
                  THEN [pc |-> "sending",
                        frame |-> Frame("partial_result", 0,
                                        Head(audio_queue), "")]
                  ELSE @]
    /\ UNCHANGED <<unitVars, idleChatVars, active_connections, open, h, inbound, sent, chunk_origin,
                   dropped>>

\* process_streaming_stt: the send of a result returns, or raises and ends
\* the task
ConsumerSendDone(c, outcome) ==
    /\ cons[c].pc = "sending"
    /\ outcome \in SendOutcomes(c)
    /\ sent' = Delivered(c, cons[c].frame, outcome)
    /\ cons' = [cons EXCEPT ![c] =
                  IF outcome = "raise" THEN [pc |-> "done", frame |-> NoFrame]
                  ELSE [pc |-> "waiting", frame |-> NoFrame]]
    /\ UNCHANGED <<unitVars, idleChatVars, active_connections, open, h, inbound, audio_queue,
                   chunk_origin, temp_files, dropped>>

\* the client of a streaming connection closes its end
SttPeerClose(c) ==
    /\ h[c].pc \notin {"new", "ended"}
    /\ open[c]
    /\ open' = [open EXCEPT ![c] = FALSE]
    /\ UNCHANGED <<unitVars, idleChatVars, active_connections, h, inbound, sent, sttVars>>

\* the streaming endpoint: connections of /ws/streaming-stt and their
\* processing tasks
NextSTT ==
    \/ \E c \in Conns : SttConnect(c)
    \/ \E c \in Conns : SttPeerClose(c)
    \/ \E c \in Conns : SttRecvChunk(c)
    \/ \E c \in Conns, kind \in {"ping", "start_stream", "bad_chunk"} :
          SttRecvReply(c, kind)
    \/ \E c \in Conns : SttRecvStopStream(c)
    \/ \E c \in Conns : SttRecvMalformed(c)
    \/ \E c \in Conns : SttRecvDisconnect(c)
    \/ \E c \in Conns, o \in {"ok", "lost", "raise"} : SttSendDone(c, o)
    \/ \E c \in Conns, o \in {"text", "silence", "raise"} : ConsumerStep(c, o)
    \/ \E c \in Conns, o \in {"ok", "lost", "raise"} : ConsumerSendDone(c, o)

SpecSTT == Init /\ [][NextSTT]_vars

\* ------------------------------------- StreamingSTTService on its own
\* the service with one process_stream worker, fed by add_audio_chunk
workerIdle == <<result, bc, tts, conf, upd, raw, melo, chatVars, cons>>

\* add_audio_chunk: the temporary file is written and the chunk is queued
\* (0: the caller is no websocket of the model)
AddAudioChunk ==
    /\ Len(chunk_origin) < MaxChunks
    /\ LET k == Len(chunk_origin) + 1 IN
       /\ chunk_origin' = Append(chunk_origin, 0)
       /\ temp_files' = temp_files \cup {k}
       /\ audio_queue' = put_nowait(audio_queue, k)
       /\ dropped' = IF QueueFull(audio_queue) THEN dropped + 1 ELSE dropped
    /\ UNCHANGED <<workerIdle, svc>>

\* process_stream is entered: initialize() is awaited unless the engine is
\* loaded; when it raises, the generator ends with that exception
ProcessStreamStart(ok) ==
    /\ svc.pc = "none"
    /\ svc' = IF svc.is_initialized \/ ok
              THEN [svc EXCEPT !.is_initialized = TRUE, !.pc = "waiting"]
              ELSE [svc EXCEPT !.pc = "dead"]
    /\ UNCHANGED <<workerIdle, sttVars>>

\* the loop of process_stream after an iteration: "except Exception:
\* continue" for whatever transcribe_chunk raises
worker_after_fatal(outcome) ==
    IF outcome \in {"raise", "init_fails"} THEN "dead" ELSE "waiting"

worker_after(outcome) == "waiting"

\* what a chunk may come to.  "init_fails": the engine is not loaded and
\* initialize() raises; "raise": model.transcribe raises; "silence": the
\* text is empty; "text": a result is returned
ChunkOutcomes ==
    IF svc.is_initialized THEN {"text", "silence", "raise"}
    ELSE {"text", "silence", "raise", "init_fails"}

\* the temporary files left by transcribe_chunk: os.unlink is reached after
\* the transcription and in the except clause of its try, which the
\* initialize() call precedes
files_after(files, k, outcome) ==
    IF outcome = "init_fails" THEN files ELSE files \ {k}

\* the worker takes the next chunk and transcribe_chunk runs on it
WorkerStep(outcome) ==
    /\ svc.pc = "waiting"
    /\ audio_queue # <<>>
    /\ outcome \in ChunkOutcomes
    /\ LET k == Head(audio_queue) IN
       /\ audio_queue' = Tail(audio_queue)
       /\ temp_files' = files_after(temp_files, k, outcome)
       /\ svc' = [svc EXCEPT
                    !.is_initialized = (outcome # "init_fails"),
                    !.pc = worker_after(outcome),
                    !.taken = Append(@, [chunk |-> k, outcome |-> outcome]),
                    !.yielded = IF outcome = "text" THEN Append(@, k) ELSE @]
    /\ UNCHANGED <<workerIdle, chunk_origin, dropped>>

\* cleanup(): the engine is unloaded (nothing changes without an engine)
Cleanup ==
    /\ svc.is_initialized
    /\ svc' = [svc EXCEPT !.is_initialized = FALSE]
    /\ UNCHANGED <<workerIdle, sttVars>>

NextWorker ==
    \/ AddAudioChunk
    \/ \E ok \in BOOLEAN : ProcessStreamStart(ok)
    \/ \E o \in {"text", "silence", "raise", "init_fails"} : WorkerStep(o)
    \/ Cleanup

\* the event loop runs a worker that has a chunk to take
SpecWorker ==
    /\ Init
    /\ [][NextWorker]_vars
    /\ WF_vars(\E o \in {"text", "silence", "raise", "init_fails"} :
                  WorkerStep(o))

\* ------------------------------------------ /ws/stt of korean_tts_api.py
\* samples a binary frame may carry
ChunkSamples == {8000, 16000}

\* WhisperSTT.stop_streaming_transcription on the recogniser state r: a
\* non-empty buffer is handed to a new transcription thread, and the result
\* queue is emptied
stop_streaming_transcription(r) ==
    [r EXCEPT !.is_recording = FALSE,
              !.threads = IF r.audio_buffer > 0 THEN @ + 1 ELSE @,
              !.audio_buffer = 0,
              !.result_queue = 0]

\* WhisperSTT.add_audio_chunk of n samples on r: nothing is kept while
\* is_recording is false; otherwise the buffer grows and, once it holds
\* min_samples, _process_audio_buffer empties it into a new thread
add_audio_chunk(r, n) ==
    IF ~r.is_recording
    THEN [r EXCEPT !.discarded = @ + 1]
    ELSE IF r.audio_buffer + n >= min_samples
         THEN [r EXCEPT !.audio_buffer = 0, !.threads = @ + 1]
         ELSE [r EXCEPT !.audio_buffer = @ + n]

\* no handler is inside next(streaming_generator): the generator is a
\* synchronous one called from the coroutine, so while it loops on
\* result_queue.get(timeout=0.1) nothing else runs on the event loop
EventLoopFree == \A c \in Conns : raw.hs[c].pc # "polling"

\* the handler of c leaves its loop: the finally clause of websocket_stt
\* calls stop_streaming_transcription
RawEnded(r, c) ==
    [stop_streaming_transcription(r) EXCEPT !.hs[c].pc = "ended"]

\* the handler of c begins a send_text and goes on at `after` when it returns
RawSend(r, c, text, after) ==
    [r EXCEPT !.hs[c].pc = "send", !.hs[c].text = text,
              !.hs[c].after = after]

\* next(streaming_generator) in the handler of c, the recogniser being r:
\* the first call runs the generator's body from its top, which sets
\* is_recording and empties the buffer; then, while is_recording, a queued
\* result is yielded and sent, and with an empty queue the call stays in
\* the get/continue loop.  With is_recording false the generator ends
\* (StopIteration) and the handler breaks.
next_generator(r, c) ==
    LET r1 == IF r.hs[c].started THEN r
              ELSE [r EXCEPT !.is_recording = TRUE, !.audio_buffer = 0,
                             !.hs[c].started = TRUE]
    IN  IF ~r1.is_recording
        THEN RawEnded(r1, c)
        ELSE IF r1.result_queue > 0
             THEN RawSend([r1 EXCEPT !.result_queue = @ - 1], c, "result",
                          "recv")
             ELSE [r1 EXCEPT !.hs[c].pc = "polling"]

\* websocket_stt up to its first await after accept: without a model the
\* socket is closed; otherwise the greeting is sent.  The generator object
\* is created when the send returns, and creating it runs none of its body.
RawAccept(c, available) ==
    /\ raw.hs[c].pc = "new"
    /\ EventLoopFree
    /\ open[c]
    /\ raw' = IF available
              THEN RawSend(raw, c, "Connected", "recv")
              ELSE [raw EXCEPT !.hs[c].pc = "closed"]
    /\ UNCHANGED <<rawIdle, open, inbound, sent>>

\* a send_text returns or raises.  A raise of the greeting goes to the outer
\* handler, a raise inside the loop to the inner ones; both leave the loop.
RawSendDone(c, outcome) ==
    /\ raw.hs[c].pc = "send"
    /\ EventLoopFree
    /\ outcome \in SendOutcomes(c)
    /\ sent' = Delivered(c, [type |-> "text", text |-> raw.hs[c].text],
                         outcome)
    /\ raw' = IF outcome = "raise" \/ raw.hs[c].after = "end"
              THEN RawEnded(raw, c)
              ELSE [raw EXCEPT !.hs[c].pc = raw.hs[c].after]
    /\ UNCHANGED <<rawIdle, open, inbound>>

RawCanRecv(c) ==
    /\ raw.hs[c].pc = "recv"
    /\ EventLoopFree
    /\ inbound < MaxInbound
    /\ inbound' = inbound + 1

\* a binary frame of n samples: add_audio_chunk, then the poll
RawRecvBytes(c, n) ==
    /\ RawCanRecv(c)
    /\ open[c]
    /\ raw' = next_generator(add_audio_chunk(raw, n), c)
    /\ UNCHANGED <<rawIdle, open, sent>>

\* a text frame: CHANGE_LANGUAGE is answered and the loop continues without
\* a poll; STOP_STT stops the recogniser, is answered and ends the loop;
\* any other text falls through to the poll
RawRecvText(c, kind) ==
    /\ RawCanRecv(c)
    /\ open[c]
    /\ raw' = CASE kind = "CHANGE_LANGUAGE" ->
                      RawSend(raw, c, "Language changed", "recv")
                [] kind = "STOP_STT" ->
                      RawSend(stop_streaming_transcription(raw), c,
                              "STT stopped", "end")
                [] OTHER -> next_generator(raw, c)
    /\ UNCHANGED <<rawIdle, open, sent>>

\* receive() returns the websocket.disconnect message of a closed peer: its
\* type is not websocket.receive, so the handler goes on to the poll
RawRecvDisconnect(c) ==
    /\ RawCanRecv(c)
    /\ ~open[c]
    /\ raw' = next_generator(raw, c)
    /\ UNCHANGED <<rawIdle, open, sent>>

\* one more round of the generator's loop, 0.1 s later
RawPoll(c) ==
    /\ raw.hs[c].pc = "polling"
    /\ raw' = next_generator(raw, c)
    /\ UNCHANGED <<rawIdle, open, inbound, sent>>

RawPeerClose(c) ==
    /\ open[c]
    /\ raw.hs[c].pc \notin {"new", "closed"}
    /\ open' = [open EXCEPT ![c] = FALSE]
    /\ UNCHANGED <<rawIdle, raw, inbound, sent>>

NextRawStt ==
    \/ \E c \in Conns, a \in BOOLEAN : RawAccept(c, a)
    \/ \E c \in Conns, o \in {"ok", "lost", "raise"} : RawSendDone(c, o)
    \/ \E c \in Conns, n \in ChunkSamples : RawRecvBytes(c, n)
    \/ \E c \in Conns, k \in {"CHANGE_LANGUAGE", "STOP_STT", "other"} :
          RawRecvText(c, k)
    \/ \E c \in Conns : RawRecvDisconnect(c)
    \/ \E c \in Conns : RawPoll(c)
    \/ \E c \in Conns : RawPeerClose(c)

SpecRawStt == Init /\ [][NextRawStt]_vars

\* ------------------------------------------------- MeloEngine.synthesize
\* audio_int16 arrays tts_to_file, _load_audio_file and _trim_silence can
\* leave: n samples, the i-th being a signed 16-bit value set by p
AudioLengths == {0, 1, 1024, 1025, 2048, 2500}
AudioPatterns == {1, 3, 5}
AudioInt16(n, p) == [i \in 1..n |-> ((i * p) % 7) - 3]

\* ndarray.tobytes() of int16 samples: two bytes a sample, low byte first,
\* two's complement
tobytes(s) ==
    [k \in 1..(2 * Len(s)) |->
        LET u == s[(k + 1) \div 2] % 65536
        IN  IF k % 2 = 1 THEN u % 256 ELSE u \div 256]

\* audio_int16[i:i + chunk_size]
Slice(s, i) == SubSeq(s, i + 1, Min(i + chunk_size, Len(s)))

\* what the loop does with the value stop_synthesis_event.is_set() gave
breaks_never(is_set) == FALSE

breaks(is_set) == is_set

ChunkItem(b) == [kind |-> "chunk", bytes |-> b]
NoneItem == [kind |-> "None", bytes |-> <<>>]

\* synthesize(text) up to the first test of the stop event: without a model
\* False is returned; super().synthesize clears the stop event; an exception
\* of the engine puts None and returns False; a file that cannot be loaded
\* returns False; otherwise the loop is entered, or passed at once for an
\* empty array
MeloSynthesize(n, p, outcome) ==
    /\ melo.pc \in {"idle", "done"}
    /\ melo.calls < MaxSyntheses
    /\ LET m == [melo EXCEPT !.calls = @ + 1, !.base = Len(melo.queue),
                             !.audio = <<>>, !.i = 0, !.cancelled = FALSE,
                             !.is_set = FALSE, !.ret = ""]
       IN  melo' =
             CASE outcome = "no_model" ->
                    [m EXCEPT !.pc = "done", !.ret = "False"]
               [] outcome = "raise" ->
                    [m EXCEPT !.pc = "done", !.ret = "False", !.stop = FALSE,
                              !.queue = Append(@, NoneItem)]
               [] outcome = "unreadable" ->
                    [m EXCEPT !.pc = "done", !.ret = "False", !.stop = FALSE]
               [] OTHER ->
                    IF n = 0
                    THEN [m EXCEPT !.pc = "done", !.ret = "True",
                                   !.stop = FALSE,
                                   !.queue = Append(@, NoneItem)]
                    ELSE [m EXCEPT !.pc = "check", !.stop = FALSE,
                                   !.audio = AudioInt16(n, p)]
    /\ UNCHANGED meloIdle

\* the head of one loop round: the stop event is read, and if the loop
\* breaks None is put and True returned
MeloCheck ==
    /\ melo.pc = "check"
    /\ melo' = IF breaks(melo.stop)
               THEN [melo EXCEPT !.pc = "done", !.ret = "True",
                                 !.is_set = melo.stop, !.cancelled = TRUE,
                                 !.queue = Append(@, NoneItem)]
               ELSE [melo EXCEPT !.pc = "put", !.is_set = melo.stop]
    /\ UNCHANGED meloIdle

\* the rest of the round: the slice is put; after the last one None is put
\* and True returned
MeloPut ==
    /\ melo.pc = "put"
    /\ LET q == Append(melo.queue, ChunkItem(tobytes(Slice(melo.audio, melo.i))))
           j == melo.i + chunk_size
       IN  melo' = IF j < Len(melo.audio)
                   THEN [melo EXCEPT !.pc = "check", !.i = j, !.queue = q]
                   ELSE [melo EXCEPT !.pc = "done", !.i = j, !.ret = "True",
                                     !.queue = Append(q, NoneItem)]
    /\ UNCHANGED meloIdle

\* another thread sets stop_synthesis_event
MeloStop ==
    /\ ~melo.stop
    /\ melo' = [melo EXCEPT !.stop = TRUE]
    /\ UNCHANGED meloIdle

NextMelo ==
    \/ \E n \in AudioLengths, p \in AudioPatterns,
          o \in {"ok", "no_model", "raise", "unreadable"} :
          MeloSynthesize(n, p, o)
    \/ MeloCheck
    \/ MeloPut
    \/ MeloStop

SpecMelo == Init /\ [][NextMelo]_vars

\* ==================================================================== claims
RegisteredIds == {active_sessions[i] : i \in 1..Len(active_sessions)}

SessionsOf(c) == {s \in RegisteredIds : sess[s].websocket = c}

HandlerSending(c) ==
    h[c].pc \in {"personal_send", "stop_send", "greet_send", "reply_send"}

LoopSendingTo(c) == spc = "send" /\ sess[scur].websocket = c

IsGreeting(f, s) ==
    f.type = "auto_chat_message" /\ f.sid = s /\ f.cls = "greeting"

IsAck(f, s) == f.type = "auto_chat_started" /\ f.sid = s

\* C1: in every reachable state at most one session of active_sessions is
\* bound to any given websocket (so at most one active one), and
\* active_sessions holds no id twice: a start_auto_chat on a websocket that
\* has a session registers the new one only once the earlier one is removed.
C1_OneSessionPerWebsocket ==
    /\ Cardinality(RegisteredIds) = Len(active_sessions)
    /\ \A c \in Conns : Cardinality(SessionsOf(c)) <= 1

\* C1 witness: a second session has been started on a websocket; it is
\* registered and active, the earlier one was stopped and is gone.
C1_Witness ==
    \E s1, s2 \in 1..Len(sess) :
        /\ s1 < s2
        /\ sess[s1].websocket = sess[s2].websocket
        /\ s2 \in RegisteredIds /\ sess[s2].is_active
        /\ s1 \notin RegisteredIds /\ ~sess[s1].is_active
        /\ \E i \in 1..Len(sent[sess[s1].websocket]) :
              sent[sess[s1].websocket][i] = Frame("auto_chat_stop", s1, 0, "")

\* C2 (as claimed): every session of active_sessions has its interval in
\* [10, 300], whatever interval the auto_chat_start frame carried.
C2_IntervalClamped ==
    \A s \in RegisteredIds :
        MinInterval <= sess[s].interval /\ sess[s].interval <= MaxInterval

\* C3 (as claimed): at no point are two writes to the same websocket in
\* flight: a send of the polling loop and a send of the connection's own
\* receive loop never overlap.
C3_WritesSerialized ==
    \A c \in Conns : ~(HandlerSending(c) /\ LoopSendingTo(c))

\* C4 (as claimed): once the receive loop of a chat connection has ended,
\* whatever ended it, the connection is not in active_connections and no
\* session bound to it is in active_sessions.
C4_CleanupOnEveryExit ==
    \A c \in Conns :
        h[c].pc = "ended" =>
            ~InSeq(active_connections, c) /\ SessionsOf(c) = {}

\* C5 (as claimed): a text frame that is not valid JSON does not end the
\* receive loop, so that a later ping can still be answered.
C5_BadJsonKeepsLoop ==
    \A c \in Conns : ~(h[c].pc = "ended" /\ h[c].exit = "bad_json")

\* no chunk has been taken from the queue yet (the consumer has not run):
\* the temporary file of every ingested chunk still exists
NothingConsumed == temp_files = 1..Len(chunk_origin)

\* C6 (as claimed): with capacity c and no chunk consumed yet, n ingested
\* chunks leave min(n, c) chunks queued, the earliest ones in arrival order,
\* and the drop counter is max(0, n - c).
C6_FullQueueDropsNewest ==
    NothingConsumed =>
        /\ audio_queue = [i \in 1..Min(Len(chunk_origin), Capacity) |-> i]
        /\ dropped = Max(0, Len(chunk_origin) - Capacity)

\* C7 (as claimed): the audio queue never holds more chunks than the
\* configured capacity (add_audio_chunk returning at once is built into
\* SttRecvChunk, which is one step of the receive loop).
C7_QueueWithinCapacity == Len(audio_queue) <= Capacity

\* C8 (as claimed): a transcription result is written only to the websocket
\* whose receive loop ingested the chunk it was made from.
C8_ResultsStayOnOrigin ==
    \A c \in Conns : \A i \in 1..Len(sent[c]) :
        sent[c][i].type = "partial_result" => chunk_origin[sent[c][i].n] = c

\* C9 (as claimed): once pause_auto_chat(id, d) was called at time t, the
\* polling loop begins no send for that session before t + d.
C9_NoFireDuringPause ==
    [][\A s \in 1..Len(sess) :
          (spc' = "send" /\ scur' = s /\ ~(spc = "send" /\ scur = s))
              => now >= pause_until[s]]_vars

\* C10 (as claimed): the greeting of a session is written to the websocket
\* only after the auto_chat_started acknowledgement of that session.
C10_AckBeforeGreeting ==
    \A c \in Conns : \A i \in 1..Len(sent[c]) : \A s \in 1..Len(sess) :
        IsGreeting(sent[c][i], s) =>
            \E j \in 1..(i - 1) : IsAck(sent[c][j], s)

\* C10 (amended): the auto_chat_started acknowledgement of a session is
\* written only after the greeting that start_auto_chat sent for it: every
\* acknowledgement in the frames of a websocket is preceded by the greeting
\* of the same session, with message_count 1.
C10_GreetingBeforeAck ==
    \A c \in Conns : \A j \in 1..Len(sent[c]) : \A s \in 1..Len(sess) :
        IsAck(sent[c][j], s) =>
            \E i \in 1..(j - 1) :
                IsGreeting(sent[c][i], s) /\ sent[c][i].n = 1

\* C10 witness: an acknowledgement has been written to a websocket.
C10_Witness ==
    \E c \in Conns : \E j \in 1..Len(sent[c]) :
        sent[c][j].type = "auto_chat_started"

\* C11 (as claimed): once stop_auto_chat(id) has been called on a registered
\* id and the call is over, the session is no longer in active_sessions,
\* also when the stop notification could not be delivered.
C11_StopAlwaysRemoves ==
    [][\A c \in Conns :
          (h[c].pc = "stop_send"
             /\ (h'[c].pc # "stop_send" \/ h'[c].cur # h[c].cur))
              => ~InSeq(active_sessions', h[c].cur)]_vars

\* C12 (as claimed): no session of active_sessions references a connection
\* that is absent from active_connections; a failed send, by the polling
\* loop or through send_personal_message, removes the connection and its
\* session together.
C12_NoSessionWithoutConnection ==
    \A s \in RegisteredIds : InSeq(active_connections, sess[s].websocket)

\* C13: when the send of a scheduled message fails during a tick, the
\* session is removed from active_sessions and is not sent to again, the
\* loop goes on with the next due session of the same tick if there is one,
\* and the polling loop keeps running.
C13_FailureIsolated ==
    [][(spc = "send" /\ (spc' # "send" \/ scur' # scur)
          /\ sess'[scur] = sess[scur])
        => /\ ~InSeq(active_sessions', scur)
           /\ ~(spc' = "send" /\ scur' = scur)
           /\ is_running' /\ spc' \in {"send", "sleep"}
           /\ LET i == FirstDue(snapshot, sess, now) IN
                 i # 0 => (spc' = "send" /\ scur' = snapshot[i])]_vars

\* C13 witness: in the current tick the send to one session failed (the
\* session is gone though it was never stopped, and the tick began no later
\* than its due time) and the loop is now sending to another session.
C13_Witness ==
    \E s1, s2 \in 1..Len(sess) :
        /\ sess[s1].websocket # sess[s2].websocket
        /\ sess[s1].is_active /\ ~InSeq(active_sessions, s1)
        /\ sess[s1].message_count >= 1 /\ sess[s1].user_responses = <<>>
        /\ wake <= sess[s1].last_message_time + sess[s1].interval
        /\ spc = "send" /\ scur = s2

\* C14 (as claimed): an active session is never left waiting for more than
\* one tick period after it became due, however many other sessions the
\* loop handles: unless the loop is sending to it, the time is at most
\* last_message_time + interval + 5.
C14_DueFiredWithinTick ==
    \A s \in RegisteredIds :
        (sess[s].is_active /\ ~(spc = "send" /\ scur = s))
            => now <= sess[s].last_message_time + sess[s].interval
                        + TickPeriod

\* C15 (as claimed): no fire of a session (a send after which
\* update_last_message_time is called, by the loop or for an immediate
\* reply) sets last_message_time to a value lower than it held before.
C15_LastMessageTimeMonotone ==
    [][\A s \in 1..Len(sess) :
          sess'[s].message_count > sess[s].message_count
              => sess'[s].last_message_time >= sess[s].last_message_time]_vars

\* C16: after any sequence of add_user_response calls on a session,
\* user_responses holds at most 10 entries and equals the last min(n, 10)
\* of the n utterances given, in arrival order.
C16_LastTenUtterances ==
    \A s \in 1..Len(sess) :
        LET n == Len(utterances[s])
            k == IF n < 10 THEN n ELSE 10
        IN  /\ Len(sess[s].user_responses) <= 10
            /\ sess[s].user_responses = SubSeq(utterances[s], n - k + 1, n)

\* C16 witness: more than 10 utterances were given, not all the same, so
\* that the oldest ones have been evicted.
C16_Witness ==
    \E s \in 1..Len(sess) :
        /\ Len(utterances[s]) > 10
        /\ utterances[s][1] # utterances[s][11]
        /\ Len(sess[s].user_responses) = 10

\* C17 (as claimed): the reply to a ping is exactly the object
\* {type: pong, timestamp: T}: every pong written to a websocket of the
\* chat endpoint has these two fields and no other.
C17_PongExact ==
    \A c \in Conns : \A i \in 1..Len(sent[c]) :
        sent[c][i].type = "pong"
            => DOMAIN sent[c][i] = {"type", "timestamp"}

\* a call of send_personal_message on a registered websocket c ends in this
\* step, and its send_text raised
SendFailedOn(c) ==
    /\ h[c].pc = "personal_send" /\ h'[c].pc # "personal_send"
    /\ InSeq(active_connections, c)
    /\ result'[c].write = "raise"

\* C18 (as claimed): a connection appears in active_connections at most
\* once, because connect on a registered connection is a no-op.
C18_RegisteredOnce ==
    \A c \in Conns :
        Cardinality({i \in 1..Len(active_connections) :
                        active_connections[i] = c}) <= 1

\* C19 (as claimed): when the write of send_personal_message fails, the
\* connection is removed from the registry and the caller is given an
\* error.
C19_FailureReported ==
    [][\A c \in Conns :
          SendFailedOn(c) => /\ ~InSeq(active_connections', c)
                             /\ result'[c].ret = "error"]_vars

\* C20 (as claimed): when send_text raises inside send_personal_message,
\* the websocket is still a member of active_connections after the call.
C20_StillRegisteredAfterFailure ==
    [][\A c \in Conns :
          SendFailedOn(c) => InSeq(active_connections', c)]_vars

\* number of entries of seq equal to x
Count(seq, x) == Cardinality({i \in 1..Len(seq) : seq[i] = x})

\* a broadcast call ends in this step, and the registry, which held no
\* connection twice, is as it was when the call began
BroadcastEnds ==
    /\ bc.pc = "send" /\ bc'.pc = "idle"
    /\ active_connections = bc.targets
    /\ \A c \in Conns : Count(bc.targets, c) <= 1

\* C21 (as claimed): broadcast calls send_text exactly once on every
\* registered connection; a connection is removed from the registry exactly
\* when its send failed, and a failure does not keep the message from any
\* other connection.
C21_BroadcastReachesAll ==
    [][BroadcastEnds =>
          \A c \in Conns :
              InSeq(bc'.targets, c) =>
                  /\ Count(bc'.calls, c) = 1
                  /\ (c \in bc'.failed) = ~InSeq(active_connections', c)]_vars

\* C22 (as claimed): disconnect of a connection that is not registered
\* raises no error (and leaves the registry unchanged).
C22_DisconnectIdempotent ==
    \A c \in Conns : result[c].ret # "ValueError"

\* send_bytes is called on c in this step
SendBytesBegins(c) == tts[c].pc # "chunk_send" /\ tts'[c].pc = "chunk_send"

\* C23: once a send on a synthesis connection has raised, send_bytes is not
\* called on that connection again: the streaming loop is left at the
\* failed call and no later stream is begun.
C23_NoAudioAfterFailure ==
    [][\A c \in Conns : tts[c].failed => ~SendBytesBegins(c)]_vars

\* C23 witness: a send_bytes has raised in a stream the engine could still
\* have fed, and the handler is past the loop, at the end marker.
C23_Witness ==
    \E c \in Conns :
        /\ tts[c].failed
        /\ tts[c].pc = "end_send"
        /\ tts[c].k > 0
        /\ tts[c].k < MaxTtsChunks

\* where a sequence of frames stands: outside a stream, inside one, or
\* "bad" when a marker or an audio frame is out of place
RECURSIVE StreamState(_)
StreamState(seq) ==
    IF seq = <<>> THEN "outside"
    ELSE LET prev == StreamState(SubSeq(seq, 1, Len(seq) - 1))
             f == seq[Len(seq)].type
         IN  CASE prev = "bad" -> "bad"
               [] f = "|AUDIO_START|" ->
                     IF prev = "outside" THEN "inside" ELSE "bad"
               [] f = "|AUDIO_END|" ->
                     IF prev = "inside" THEN "outside" ELSE "bad"
               [] f = "audio" -> IF prev = "inside" THEN "inside" ELSE "bad"
               [] OTHER -> prev

\* C24: in the frames written to a synthesis connection the audio frames
\* lie between a start marker and the next end marker, the two markers
\* alternate, and a stream with no end marker is one still in progress or
\* one whose peer has closed.
C24_AudioBracketed ==
    \A c \in Conns :
        /\ StreamState(sent[c]) # "bad"
        /\ StreamState(sent[c]) = "inside" =>
              \/ tts[c].pc \in {"stream", "chunk_send", "end_send"}
              \/ ~open[c]

\* C24 witness: two complete streams with audio have been written to one
\* connection, and the handler waits for the next frame.
C24_Witness ==
    \E c \in Conns :
        /\ tts[c].pc = "recv"
        /\ StreamState(sent[c]) = "outside"
        /\ Cardinality({i \in 1..Len(sent[c]) :
                           sent[c][i].type = "|AUDIO_END|"}) = 2
        /\ \E i \in 1..Len(sent[c]) : sent[c][i].type = "audio"

\* every segment of the result has this avg_logprob
AllSegments(lp) ==
    /\ conf.segments # <<>>
    /\ \A i \in 1..Len(conf.segments) : conf.segments[i] = lp

\* C25 (as claimed): on both paths the reported confidence lies in [0, 1],
\* is 0 when the segments' avg_logprob is -1 and is 1 when it is 0.
C25_ConfidenceMapped ==
    conf.path \in {"streaming", "ws_stt"} =>
        /\ conf.confidence >= 0 /\ conf.confidence <= 1000
        /\ AllSegments(-1000) => conf.confidence = 0
        /\ AllSegments(0) => conf.confidence = 1000

\* C26 (as claimed): at any time at most one polling task exists.
C26_OnePollingTask == background_tasks <= 1

\* the auto_chat_message frames of session s written to c, in order
MessagesOf(c, s) ==
    SelectSeq(sent[c],
              LAMBDA f : f.type = "auto_chat_message" /\ f.sid = s)

\* C27 (as claimed): the first message written for a session is a greeting
\* and no later message of the session is one.
C27_OneGreeting ==
    \A c \in Conns, s \in 1..Len(sess) :
        \A i \in 1..Len(MessagesOf(c, s)) :
            (MessagesOf(c, s)[i].cls = "greeting") = (i = 1)

\* the chunks the worker has dequeued, in order
TakenChunks == [i \in 1..Len(svc.taken) |-> svc.taken[i].chunk]

\* chunk k made the engine raise
Raised(k) ==
    \E i \in 1..Len(svc.taken) :
        svc.taken[i].chunk = k /\ svc.taken[i].outcome = "raise"

\* C28: a chunk for which the engine raises is dequeued once and yields no
\* result, the worker goes on, chunks are dequeued in arrival order, and a
\* queued chunk of a running worker is eventually dequeued.
C28_EngineErrorNotFatal ==
    /\ [](/\ \A i, j \in 1..Len(TakenChunks) :
                i < j => TakenChunks[i] < TakenChunks[j]
          /\ \A k \in 1..MaxChunks :
                Raised(k) => /\ ~InSeq(svc.yielded, k)
                             /\ ~InSeq(audio_queue, k)
                             /\ svc.pc = "waiting")
    /\ \A k \in 1..MaxChunks :
          (InSeq(audio_queue, k) /\ svc.pc = "waiting")
              ~> InSeq(TakenChunks, k)

\* C28 witness: the engine raised for one chunk and a later chunk was
\* transcribed and gave a result.
C28_Witness ==
    \E i, j \in 1..Len(svc.taken) :
        /\ i < j
        /\ svc.taken[i].outcome = "raise"
        /\ svc.taken[j].outcome = "text"
        /\ InSeq(svc.yielded, svc.taken[j].chunk)

\* C29 (as claimed): when the audio queue is empty and the worker is idle,
\* no temporary file of a chunk remains.
C29_NoTempFileLeft ==
    (audio_queue = <<>> /\ svc.pc = "waiting") => temp_files = {}

\* an update_session_settings call is made in this step
UpdateCalled == upd'.n = upd.n + 1

\* C30: update_session_settings on a registered id stores the interval
\* clamped to [10, 300] and sends one notification, with the stored theme
\* and interval, to the session's websocket; on an unregistered id it
\* returns False, sends nothing and changes no session.
C30_SettingsUpdate ==
    [][/\ UpdateCalled =>
             IF InSeq(active_sessions, upd'.sid)
             THEN /\ sess'[upd'.sid].interval =
                        Max(MinInterval, Min(MaxInterval, upd'.interval))
                  /\ upd'.pc = "send"
                  /\ upd'.to = sess[upd'.sid].websocket
                  /\ upd'.frame =
                        [type |-> "auto_chat_settings_updated",
                         sid |-> upd'.sid,
                         theme |-> sess'[upd'.sid].theme,
                         interval |-> sess'[upd'.sid].interval]
             ELSE /\ upd'.ret = "False" /\ upd'.pc = "idle"
                  /\ sess' = sess /\ sent' = sent
       /\ (upd.pc = "send" /\ upd'.pc = "idle") =>
             /\ upd'.ret \in {"True", "raise"}
             /\ sess' = sess
             /\ \/ sent' = sent
                \/ sent' = [sent EXCEPT ![upd.to] = Append(@, upd.frame)]
      ]_vars

\* C30 witness: a call with interval 400 on a registered session has
\* returned True, the session holds 300 and the last frame written to its
\* websocket is the notification, carrying 300.
C30_Witness ==
    /\ upd.ret = "True"
    /\ upd.interval = 400
    /\ sess[upd.sid].interval = MaxInterval
    /\ sent[upd.to] # <<>>
    /\ sent[upd.to][Len(sent[upd.to])] = upd.frame
    /\ upd.frame.interval = MaxInterval

\* C31 (as claimed): the confidence of a result with segments is the mean
\* of the segments' avg_logprob, plus 1, clamped to [0, 1].
C31_MeanThenClamp ==
    (conf.path \in {"streaming", "whisper"} /\ conf.segments # <<>>) =>
        conf.confidence =
            Clamp01((SumSeq(conf.segments) \div Len(conf.segments)) + 1000)

\* C32: on /ws/stt the handling of an inbound frame ends and the handler
\* waits for the next frame: a handler inside the result poll has a queued
\* result or a running transcription thread that will end the poll; and no
\* received chunk is thrown away.
C32_FrameHandlingReturns ==
    /\ \A c \in Conns :
          raw.hs[c].pc = "polling" =>
              (raw.result_queue > 0 \/ raw.threads > 0)
    /\ raw.discarded = 0

\* the chunks put by the synthesize call made last, in the order put
RECURSIVE FramesFrom(_, _)
FramesFrom(q, k) ==
    IF k > Len(q) THEN <<>>
    ELSE IF q[k].kind = "chunk"
         THEN <<q[k].bytes>> \o FramesFrom(q, k + 1)
         ELSE FramesFrom(q, k + 1)

Frames == FramesFrom(melo.queue, melo.base + 1)

RECURSIVE Concat(_)
Concat(fs) == IF fs = <<>> THEN <<>> ELSE Head(fs) \o Concat(Tail(fs))

IsPrefixOf(a, b) == Len(a) <= Len(b) /\ SubSeq(b, 1, Len(a)) = a

\* C33: the frames of a synthesis, concatenated in the order emitted, are
\* a prefix of the audio, and the whole audio when the synthesis returned
\* without being cancelled; every frame but the last holds exactly
\* chunk_size samples; and a frame is emitted only after a test of the stop
\* signal, made for that frame, that found it clear.
C33_FramesAreTheAudio ==
    [][/\ IsPrefixOf(Concat(Frames), tobytes(melo.audio))'
       /\ (melo.ret = "True" /\ ~melo.cancelled =>
              Concat(Frames) = tobytes(melo.audio))'
       /\ (\A k \in 1..(Len(Frames) - 1) :
              Len(Frames[k]) = 2 * chunk_size)'
       /\ (\A k \in 1..Len(Frames) : Len(Frames[k]) \in 1..(2 * chunk_size))'
       /\ Len(melo'.queue) > Len(melo.queue)
             /\ melo'.queue[Len(melo.queue) + 1].kind = "chunk"
             => melo.pc = "put" /\ ~melo.is_set
      ]_vars

\* C33 witness: a synthesis of 2500 samples was stopped after its second
\* frame and returned True.
C33_Witness ==
    /\ melo.ret = "True"
    /\ Len(melo.audio) = 2500
    /\ melo.cancelled
    /\ Len(Frames) = 2

\* C34: the message_count values of the auto_chat_message frames written
\* for one session are 1, 2, 3, ... in the order written, none repeated and
\* none skipped.
C34_CountsInSequence ==
    \A c \in Conns, s \in 1..Len(sess) :
        \A i \in 1..Len(MessagesOf(c, s)) : MessagesOf(c, s)[i].n = i

\* C35: every session held in active_sessions has is_active true.
C35_StoredSessionsActive ==
    \A i \in 1..Len(active_sessions) : sess[active_sessions[i]].is_active

Pending(ac, i) == {ac[k] : k \in i..Len(ac)}

\* the positions of the list ac that hold c
Registrations(ac, c) == Cardinality({k \in 1..Len(ac) : ac[k] = c})

\* C37: while a broadcast is in progress, a step of another task that
\* removes a connection from active_connections leaves every other
\* connection that the broadcast had still to visit, and whose
\* registration the step did not touch, among those it has still to visit.
C37_DisconnectSkipsNobody ==
    [][(/\ bc.pc = "send"
        /\ bc' = bc
        /\ Len(active_connections') < Len(active_connections))
          => \A c \in Conns :
                (/\ c \in Pending(active_connections, bc.i)
                 /\ Registrations(active_connections', c) =
                       Registrations(active_connections, c))
                  => c \in Pending(active_connections', bc.i)
      ]_vars

====
